---- MODULE Spec2Model ----
(***************************************************************************)
(* Whiteout-Survival gift-code automation: the request signing scheme, the *)
(* daily batch scripts (scripts/daily_discord_batch*.py, run_wos_redeem.py) *)
(* and the Discord cog (cogs/daily_batch.py), modelled as state machines.  *)
(*                                                                         *)
(* Strings are modelled as sequences of tokens, string concatenation as    *)
(* sequence concatenation, and MD5 as an uninterpreted injective function  *)
(* of the token sequence it digests.                                       *)
(***************************************************************************)
EXTENDS Integers, Sequences, FiniteSets, TLC

VARIABLES
    form,       \* signing: the dict handed to the signing function, as its
                \* (key, value) pairs in insertion order
    sign,       \* signing: the digest last computed
    req         \* signing: the request last built by a script

VARIABLES
    script,         \* the program that runs
    pc,             \* its position
    env_ok,         \* all required environment variables are set
    exit_status,    \* the process exit status, <<>> while it runs
    roster,         \* list of [fid, stove] in dict order; stove <<>> is None
    codes,          \* the set of new codes read from the codes channel
    added,          \* FIDs added to the roster in this run, in order
    scan_i,         \* furnace scan: index of the next roster entry
    code_i,         \* redeem loop: index into sorted(codes)
    fid_i,          \* redeem loop: index into the sorted FIDs
    ok_players,
    furnace_ups,    \* list of [fid, prev, stove]
    ok_redeems,
    fail_redeems,
    redeem_lines,   \* list of [fid, code, ok, status]
    status,         \* status of the pair being redeemed
    attempt,        \* the attempt loop's variable
    calls,          \* gift_code submissions made for the current pair
    login_calls,    \* login_fid calls made for the current pair
    gift_requests,  \* list of [fid, code]: every gift_code submission
    raised,         \* the exception raised, <<>> if none
    had_unhandled_error,
    error_summary,
    posts           \* messages the run tried to post to the summary channel

VARIABLES
    channel,            \* the state channel: its messages, oldest first
    next_id,            \* the id Discord gives to the next message
    uploads,            \* state messages created so far
    floods,             \* bursts of other messages posted so far
    st_pc,              \* per run: its position around the state save
    prev_state_msg_id,  \* per run: the id found at load, <<>> is None
    upload_msg,         \* per run: <<id>> of the uploaded message, <<>> is {}
    saved               \* an upload has returned a message id

VARIABLES
    CAPTCHA,            \* solver_free: the captcha text in use, <<>> is ""
    captcha_refreshed   \* solver_free: the captcha was refreshed since the
                        \* last gift_code request

VARIABLES
    slept,              \* redeem_with_backoff: the sleeps taken, in seconds
    bo_responses,       \* redeem_with_backoff: the answers received
    bo_returned         \* redeem_with_backoff: <<answer>> returned, or <<>>

VARIABLES
    method_hint,        \* v2: <<>> (None), <<"GET">> or <<"POST">>
    ATTEMPTS,           \* v2: the variant list of the current pass
    variant_i,          \* v2: position of the "for ... in ATTEMPTS" loop
    flipped,            \* v2: the pass ended by setting method_hint
    passes              \* v2: iterations of "while True" begun for the pair

VARIABLES
    ocr_ready,          \* v3 ocr_read: easyocr, _EASY and bimg are all set
    ocr_res,            \* v3 ocr_read: what _EASY.readtext returns
    ocr_out             \* v3 ocr_read: <<value returned>>, or <<>> before

VARIABLES
    player_js           \* furnace scan: <<answer of /api/player>> of the last lookup

VARIABLES
    codes_top,          \* id of the newest message of the codes channel (0: none)
    ids_top,            \* id of the newest message of the ids channel (0: none)
    runs_started,       \* runs begun so far
    run_no,             \* per run slot: the number of the run it holds
    state,              \* per run slot: <<state loaded>>, <<>> for {}
    last_codes,         \* per run slot: last_codes
    last_ids,           \* per run slot: last_ids
    run_roster,         \* per run slot: the FIDs of roster
    run_codes,          \* per run slot: the code messages read
    latest_at_load,     \* per run slot: <<id of the newest upload>> when it loaded
    req_log,            \* the gift_code requests sent: [run, code, fid]
    upload_log,         \* the state files Discord stored: [id, run, base, state]
    overlapped          \* pairs of runs that both loaded before either saved

varsSign == <<form, sign, req>>

varsCk == <<codes_top, ids_top, runs_started, run_no, state, last_codes,
            last_ids, run_roster, run_codes, latest_at_load, req_log,
            upload_log, overlapped>>

varsScan == <<player_js>>

varsOcr == <<ocr_ready, ocr_res, ocr_out>>

varsV2 == <<method_hint, ATTEMPTS, variant_i, flipped, passes>>

varsCaptcha == <<CAPTCHA, captcha_refreshed>>

varsBackoff == <<slept, bo_responses, bo_returned>>

varsAux == <<varsCaptcha, varsBackoff, varsV2, varsOcr, varsScan, varsCk>>

varsChan == <<channel, next_id, uploads, floods, st_pc, prev_state_msg_id, upload_msg, saved>>

varsScript == <<script, pc, env_ok, exit_status, roster, codes, added, scan_i,
             code_i, fid_i, ok_players, furnace_ups, ok_redeems, fail_redeems,
             redeem_lines, status, attempt, calls, login_calls, gift_requests,
             raised, had_unhandled_error, error_summary, posts>>

varsRun == <<varsScript, varsChan, varsAux>>

vars == <<varsSign, varsRun>>

\* the runs whose state saves are followed
Runs == {1, 2}

IdleBackoff ==
    /\ slept = <<>>
    /\ bo_responses = <<>>
    /\ bo_returned = <<>>

IdleScan == player_js = <<>>

IdleCk ==
    /\ codes_top = 0
    /\ ids_top = 0
    /\ runs_started = 0
    /\ run_no = [r \in Runs |-> 0]
    /\ state = [r \in Runs |-> <<>>]
    /\ last_codes = [r \in Runs |-> 0]
    /\ last_ids = [r \in Runs |-> 0]
    /\ run_roster = [r \in Runs |-> {}]
    /\ run_codes = [r \in Runs |-> {}]
    /\ latest_at_load = [r \in Runs |-> <<>>]
    /\ req_log = {}
    /\ upload_log = <<>>
    /\ overlapped = {}

IdleOcr ==
    /\ ocr_ready = FALSE
    /\ ocr_res = <<>>
    /\ ocr_out = <<>>

IdleV2 ==
    /\ method_hint = <<>>
    /\ ATTEMPTS = <<>>
    /\ variant_i = 0
    /\ flipped = FALSE
    /\ passes = 0

\* the variables of single steps, when their script does not run
IdleAux ==
    /\ CAPTCHA = <<>>
    /\ captcha_refreshed = FALSE
    /\ IdleBackoff
    /\ IdleV2
    /\ IdleOcr
    /\ IdleScan
    /\ IdleCk

\* the state channel before any run
EmptyChan ==
    /\ channel = <<>>
    /\ next_id = 1
    /\ uploads = 0
    /\ floods = 0
    /\ st_pc = [r \in Runs |-> "idle"]
    /\ prev_state_msg_id = [r \in Runs |-> <<>>]
    /\ upload_msg = [r \in Runs |-> <<>>]
    /\ saved = FALSE

\* the variables of the runs, when no script runs
IdleRun ==
    /\ script = "none"
    /\ pc = "idle"
    /\ env_ok = TRUE
    /\ exit_status = <<>>
    /\ roster = <<>>
    /\ codes = {}
    /\ added = <<>>
    /\ scan_i = 1
    /\ code_i = 1
    /\ fid_i = 1
    /\ ok_players = 0
    /\ furnace_ups = <<>>
    /\ ok_redeems = 0
    /\ fail_redeems = 0
    /\ redeem_lines = <<>>
    /\ status = "UNKNOWN"
    /\ attempt = 0
    /\ calls = 0
    /\ login_calls = 0
    /\ gift_requests = <<>>
    /\ raised = <<>>
    /\ had_unhandled_error = FALSE
    /\ error_summary = <<>>
    /\ posts = <<>>
    /\ EmptyChan
    /\ IdleAux

IdleSign ==
    /\ form = <<>>
    /\ sign = <<>>
    /\ req = <<>>

(***************************************************************************)
(* Inputs                                                                  *)
(***************************************************************************)
WOS_SECRET == "s3cr3t"

Fids == {"100001", "100002"}

Codes == {"GIFTA", "GIFTB"}

\* str(int(time.time())) and str(int(time.time() * 1000)) at two instants
Clock == {1, 2}

TsSeconds == <<"1700000001", "1700000002">>

TsMillis == <<"1700000001000", "1700000002000">>

Captchas == {"AB12"}

(***************************************************************************)
(* Python's order on the str keys that occur in request forms              *)
(***************************************************************************)
KeyOrder == <<"captcha_code", "cdk", "fid", "lang", "sign", "time">>

Rank(k) == CHOOSE i \in 1..Len(KeyOrder) : KeyOrder[i] = k

RECURSIVE InsertSorted(_, _)
InsertSorted(x, s) ==
    IF s = <<>> THEN <<x>>
    ELSE IF Rank(x[1]) < Rank(Head(s)[1]) THEN <<x>> \o s
    ELSE <<Head(s)>> \o InsertSorted(x, Tail(s))

\* the sort left out: the items stay in insertion order
sorted_insertion_order(items) == items

\* sorted(items) for a list of (key, str(value)) tuples with distinct keys
RECURSIVE sorted(_)
sorted(items) ==
    IF items = <<>> THEN <<>>
    ELSE InsertSorted(Head(items), sorted(Tail(items)))

\* "&".join(f"{k}={v}" for k, v in items)
RECURSIVE JoinAmp(_)
JoinAmp(items) ==
    IF items = <<>> THEN <<>>
    ELSE <<Head(items)[1], "=", Head(items)[2]>>
         \o (IF Tail(items) = <<>> THEN <<>> ELSE <<"&">> \o JoinAmp(Tail(items)))

\* hashlib.md5(s.encode("utf-8")).hexdigest(): uninterpreted, lower-case hex
md5(s) == [md5 |-> s, upper |-> FALSE]

\* d.upper() of a hex digest
Upper(d) == [d EXCEPT !.upper = TRUE]

\* the digest taken over the pairs as inserted
sign_sorted_unsorted(f, secret) == md5(JoinAmp(f) \o <<secret>>)

sign_sorted(f, secret) ==
    LET items == sorted(f)
        base  == JoinAmp(items)
    IN  md5(base \o <<secret>>)

\* daily.py: {"sign": sign, **data}
md5sign(data) ==
    LET parts   == sorted(data)
        encoded == JoinAmp(parts)
    IN  <<<<"sign", md5(encoded \o <<WOS_SECRET>>)>>>> \o data

\* daily_discord_batch_solver_free.py
sign_with_captcha(fid, cdk, captcha, ts_ms) ==
    LET base == <<"fid", "=", fid, "&", "cdk", "=", cdk, "&",
                  "captcha_code", "=", captcha, "&", "time", "=", ts_ms>>
    IN  md5(base \o <<WOS_SECRET>>)

\* daily_discord_batch_v2.py
build_sign(fid, cdk, ts_value, secret, order, concat, uppercase, include_lang) ==
    LET pieces == <<<<"fid", fid>>, <<"cdk", cdk>>, <<"time", ts_value>>>>
                  \o (IF include_lang THEN <<<<"lang", "en">>>> ELSE <<>>)
        items  == IF order = "sorted" THEN sorted(pieces) ELSE pieces
        base   == JoinAmp(items)
        s      == CASE concat = "amp"    -> base \o <<"&", secret>>
                    [] concat = "key"    -> base \o <<"&", "key", "=", secret>>
                    [] concat = "prefix" -> <<secret>> \o base
                    [] OTHER             -> base \o <<secret>>
        d      == md5(s)
    IN  IF uppercase THEN Upper(d) ELSE d

Variant(method, order, concat, ts, uppercase, lang, body, use_cookie) ==
    [method |-> method, order |-> order, concat |-> concat, ts |-> ts,
     uppercase |-> uppercase, lang |-> lang, body |-> body,
     use_cookie |-> use_cookie]

DEFAULT_ATTEMPTS == <<
    Variant("POST", "fixed",  "plain",  "s",  FALSE, FALSE, "form", TRUE),
    Variant("POST", "sorted", "plain",  "s",  FALSE, FALSE, "form", TRUE),
    Variant("POST", "fixed",  "amp",    "s",  FALSE, FALSE, "form", TRUE),
    Variant("POST", "fixed",  "key",    "s",  FALSE, FALSE, "form", TRUE),
    Variant("POST", "fixed",  "prefix", "s",  FALSE, FALSE, "form", TRUE),
    Variant("POST", "fixed",  "plain",  "ms", FALSE, FALSE, "form", TRUE),
    Variant("POST", "fixed",  "plain",  "s",  TRUE,  FALSE, "form", TRUE),
    Variant("POST", "fixed",  "plain",  "s",  FALSE, TRUE,  "form", TRUE),
    Variant("POST", "fixed",  "plain",  "s",  FALSE, FALSE, "json", TRUE),
    Variant("GET",  "fixed",  "plain",  "s",  FALSE, FALSE, "form", TRUE),
    Variant("GET",  "sorted", "plain",  "s",  FALSE, FALSE, "form", TRUE),
    Variant("GET",  "fixed",  "amp",    "s",  FALSE, FALSE, "form", TRUE),
    Variant("GET",  "fixed",  "key",    "s",  FALSE, FALSE, "form", TRUE),
    Variant("GET",  "fixed",  "prefix", "s",  FALSE, FALSE, "form", TRUE),
    Variant("GET",  "fixed",  "plain",  "ms", FALSE, FALSE, "form", TRUE) >>

(***************************************************************************)
(* The signing specification: the signing functions applied to every form  *)
(* of the input set, and every request builder of the scripts.             *)
(***************************************************************************)
FormKeys == {"fid", "cdk", "time", "captcha_code"}

ValuesOf(k) ==
    CASE k = "fid"  -> Fids
      [] k = "cdk"  -> Codes
      [] k = "time" -> {TsSeconds[c] : c \in Clock}
      [] OTHER      -> Captchas

\* every dict over FormKeys, in every insertion order
InputForms ==
    UNION { { f \in [1..Cardinality(K) -> {<<k, v>> : k \in K, v \in UNION {ValuesOf(x) : x \in K}}] :
                /\ \A i \in 1..Cardinality(K) : f[i][2] \in ValuesOf(f[i][1])
                /\ \A i, j \in 1..Cardinality(K) : i # j => f[i][1] # f[j][1] }
            : K \in SUBSET FormKeys }

Request(sc, url, payload) ==
    [script |-> sc, url |-> url, payload |-> payload, variant |-> <<>>]

InitSign ==
    /\ form \in InputForms
    /\ sign = <<>>
    /\ req = <<>>
    /\ IdleRun

\* cogs/daily_batch.py, daily_discord_batch*.py: sign_sorted(form, WOS_SECRET)
ApplySignSorted ==
    /\ sign' = sign_sorted(form, WOS_SECRET)
    /\ req' = <<>>
    /\ UNCHANGED <<form, varsRun>>

\* daily.py: md5sign(data)["sign"]
ApplyMd5Sign ==
    /\ sign' = md5sign(form)[1][2]
    /\ req' = <<>>
    /\ UNCHANGED <<form, varsRun>>

PlayerScripts == {"cog", "batch", "v2", "v3", "solver_free", "run_wos_redeem"}

\* payload = {"fid": fid, "time": ts}; payload["sign"] = sign_sorted(payload, WOS_SECRET)
PlayerRequest ==
    /\ UNCHANGED varsRun
    /\ \E sc \in PlayerScripts, fid \in Fids, c \in Clock :
          LET payload == <<<<"fid", fid>>, <<"time", TsSeconds[c]>>>>
          IN  /\ form' = payload
              /\ sign' = sign_sorted(payload, WOS_SECRET)
              /\ req' = Request(sc, "/api/player", payload \o <<<<"sign", sign'>>>>)

\* daily.py fetch_player: data = md5sign({"fid": fid, "time": int(time.time())})
PlayerRequestDaily ==
    /\ UNCHANGED varsRun
    /\ \E fid \in Fids, c \in Clock :
          LET payload == <<<<"fid", fid>>, <<"time", TsSeconds[c]>>>>
              data    == md5sign(payload)
          IN  /\ form' = payload
              /\ sign' = data[1][2]
              /\ req' = Request("daily", "/api/player", data)

\* cog and run_wos_redeem.py: pay = {"fid": fid, "cdk": code, "time": ts2}
GiftCodeRequest ==
    /\ UNCHANGED varsRun
    /\ \E sc \in {"cog", "run_wos_redeem"}, fid \in Fids, code \in Codes, c \in Clock :
          LET pay == <<<<"fid", fid>>, <<"cdk", code>>, <<"time", TsSeconds[c]>>>>
          IN  /\ form' = pay
              /\ sign' = sign_sorted(pay, WOS_SECRET)
              /\ req' = Request(sc, "/api/gift_code", pay \o <<<<"sign", sign'>>>>)

\* daily_discord_batch_solver_free.py redeem_once(fid, code, captcha)
GiftCodeRequestSolverFree ==
    /\ UNCHANGED varsRun
    /\ \E fid \in Fids, code \in Codes, captcha \in Captchas, c \in Clock :
          LET ts_ms == TsMillis[c]
              fm    == << <<"fid", fid>>, <<"cdk", code>>,
                          <<"captcha_code", captcha>>, <<"time", ts_ms>> >>
          IN  /\ form' = fm
              /\ sign' = sign_with_captcha(fid, code, captcha, ts_ms)
              /\ req' = Request("solver_free", "/api/gift_code",
                                fm \o <<<<"sign", sign'>>>>)

\* daily_discord_batch_v2.py redeem_once(cookie_api, fid, code, variant)
redeem_once_v2(fid, code, c, variant) ==
    LET ts_value == IF variant.ts = "ms" THEN TsMillis[c] ELSE TsSeconds[c]
        sg       == build_sign(fid, code, ts_value, WOS_SECRET, variant.order,
                               variant.concat, variant.uppercase, variant.lang)
        payload  == << <<"fid", fid>>, <<"cdk", code>>, <<"time", ts_value>>,
                       <<"sign", sg>> >>
                    \o (IF variant.lang THEN <<<<"lang", "en">>>> ELSE <<>>)
    IN  [script |-> "v2", url |-> "/api/gift_code", payload |-> payload,
         variant |-> variant]

GiftCodeRequestV2 ==
    /\ UNCHANGED varsRun
    /\ \E fid \in Fids, code \in Codes, c \in Clock, i \in 1..Len(DEFAULT_ATTEMPTS) :
          LET r == redeem_once_v2(fid, code, c, DEFAULT_ATTEMPTS[i])
          IN  /\ req' = r
              /\ form' = SelectSeq(r.payload, LAMBDA kv : kv[1] # "sign")
              /\ sign' = SelectSeq(r.payload, LAMBDA kv : kv[1] = "sign")[1][2]

NextSign ==
    \/ ApplySignSorted
    \/ ApplyMd5Sign
    \/ PlayerRequest
    \/ PlayerRequestDaily
    \/ GiftCodeRequest
    \/ GiftCodeRequestSolverFree
    \/ GiftCodeRequestV2

SpecSign == InitSign /\ [][NextSign]_vars

(***************************************************************************)
(* Helpers shared by the runs                                              *)
(***************************************************************************)
othersRun == <<form, sign, req, varsChan, varsAux>>

\* what a step of the furnace scan leaves alone besides the script's variables
othersScan == <<form, sign, req, varsChan, varsCaptcha, varsBackoff, varsV2, varsOcr, varsCk>>

\* hp == 200 and js.get("msg") == "success", with data.get("stove_lv")
PlayerSuccess(stove) == [ok |-> TRUE, stove |-> stove]

\* every other answer of /api/player
PlayerFailure == [ok |-> FALSE, stove |-> <<>>]

FidOrder == <<"100001", "100002">>

CodeOrder == <<"GIFTA", "GIFTB">>

\* sorted(roster.keys()), sorted(all_fids)
SortedFids(S) == SelectSeq(FidOrder, LAMBDA f : f \in S)

\* sorted(codes)
SortedCodes(S) == SelectSeq(CodeOrder, LAMBDA c : c \in S)

RosterFids(r) == {r[i].fid : i \in 1..Len(r)}

NewRecord(fid) == [fid |-> fid, stove |-> <<>>]

\* for fid in sorted(new_fids): if fid not in roster: roster[fid] = {...}; added.append(fid)
AddedFids(r, new_fids) == SelectSeq(SortedFids(new_fids), LAMBDA f : f \notin RosterFids(r))

RECURSIVE NewRecords(_)
NewRecords(fs) == IF fs = <<>> THEN <<>> ELSE <<NewRecord(Head(fs))>> \o NewRecords(Tail(fs))

UpdateRoster(r, new_fids) == r \o NewRecords(AddedFids(r, new_fids))

\* the upper-cased vendor messages used as inputs, and for each the tested
\* substrings that occur in it
WordsIn(m) ==
    CASE m = "SUCCESS"               -> {"SUCCESS"}
      [] m = "RECEIVED."             -> {"RECEIVED"}
      [] m = "SAME TYPE EXCHANGE."   -> {"SAME TYPE EXCHANGE", "SAME TYPE"}
      [] m = "TIME ERROR."           -> {"TIME ERROR"}
      [] m = "CDK NOT FOUND."        -> {"CDK NOT FOUND"}
      [] m = "NOT LOGIN."            -> {"LOGIN"}
      [] m = "TOO MANY ATTEMPTS."    -> {"TOO MANY"}
      [] m = "CAPTCHA CHECK ERROR."  -> {"CAPTCHA"}
      [] m = "SIGN ERROR."           -> {"SIGN"}
      [] m = "PARAMS ERROR."         -> {"PARAMS"}
      [] m = "CODE EXPIRED."         -> {"EXPIRED"}
      [] OTHER                       -> {}

\* needle in msg
In(needle, m) == needle \in WordsIn(m)

\* f"HTTP_{http}"
HttpName(http) ==
    CASE http = 0   -> "HTTP_0"
      [] http = 200 -> "HTTP_200"
      [] http = 405 -> "HTTP_405"
      [] http = 429 -> "HTTP_429"
      [] OTHER      -> "HTTP_500"

OkStatuses == {"SUCCESS", "ALREADY", "SAME_TYPE"}

Exception(type, text) == [type |-> type, text |-> text]

\* f"{type(e).__name__}: {e}"
ErrorSummary(e) == <<e.type, ": ", e.text>>

(***************************************************************************)
(* scripts/daily_discord_batch.py                                          *)
(***************************************************************************)
BATCH_ATTEMPTS == 4

\* the runs explored redeem at most this many (code, FID) pairs
MaxPairs == 2

SUMMARY_LINES == 25

\* the states a run can load from the state channel ({} when there is none
\* or its download fails)
StoredRosters ==
    { <<>>,
      <<[fid |-> "100001", stove |-> <<10>>]>>,
      <<[fid |-> "100002", stove |-> <<>>], [fid |-> "100001", stove |-> <<10>>]>> }

\* the stove_lv values /api/player answers with (<<>> is a missing stove_lv)
StoveLevels == {<<>>, <<10>>, <<11>>}

\* (http, upper-cased msg) answers of /api/gift_code seen by the browser flow
BatchResponses ==
    { <<200, "SUCCESS">>, <<200, "CDK NOT FOUND.">>, <<200, "NOT LOGIN.">>,
      <<429, "">>, <<200, "CAPTCHA CHECK ERROR.">>, <<500, "">>,
      <<0, "NO_RESPONSE">> }

InitBatch ==
    /\ IdleSign
    /\ EmptyChan
    /\ IdleAux
    /\ script = "batch"
    /\ pc = "env"
    /\ env_ok \in BOOLEAN
    /\ exit_status = <<>>
    /\ roster = <<>>
    /\ codes = {}
    /\ added = <<>>
    /\ scan_i = 1
    /\ code_i = 1
    /\ fid_i = 1
    /\ ok_players = 0
    /\ furnace_ups = <<>>
    /\ ok_redeems = 0
    /\ fail_redeems = 0
    /\ redeem_lines = <<>>
    /\ status = "UNKNOWN"
    /\ attempt = 0
    /\ calls = 0
    /\ login_calls = 0
    /\ gift_requests = <<>>
    /\ raised = <<>>
    /\ had_unhandled_error = FALSE
    /\ error_summary = <<>>
    /\ posts = <<>>

\* if not all([...]): print("Missing required envs"); sys.exit(0)
BatchEnvCheck ==
    /\ script = "batch" /\ pc = "env"
    /\ IF env_ok
         THEN pc' = "start" /\ UNCHANGED exit_status
         ELSE pc' = "done" /\ exit_status' = <<0>>
    /\ UNCHANGED <<script, env_ok, roster, codes, added, scan_i, code_i, fid_i,
                   ok_players, furnace_ups, ok_redeems, fail_redeems,
                   redeem_lines, status, attempt, calls, login_calls,
                   gift_requests, raised, had_unhandled_error, error_summary,
                   posts, othersRun>>

\* post_message(STATE_CH, "... starting"): whether the message is delivered,
\* refused or the request raises, post_message returns and the run goes on
BatchPostStart ==
    /\ script = "batch" /\ pc = "start"
    /\ posts' = Append(posts, [kind |-> "start"])
    /\ pc' = "load"
    /\ UNCHANGED <<script, env_ok, exit_status, roster, codes, added, scan_i,
                   code_i, fid_i, ok_players, furnace_ups, ok_redeems,
                   fail_redeems, redeem_lines, status, attempt, calls,
                   login_calls, gift_requests, raised, had_unhandled_error,
                   error_summary, othersRun>>

\* the handler ends the run without going on to the summary
BatchHandlerExits(e) ==
    /\ raised' = e
    /\ had_unhandled_error' = TRUE
    /\ error_summary' = ErrorSummary(e)
    /\ pc' = "done"

\* except Exception as e: had_unhandled_error = True; error_summary = ...
BatchHandler(e) ==
    /\ raised' = e
    /\ had_unhandled_error' = TRUE
    /\ error_summary' = ErrorSummary(e)
    /\ pc' = "summary"

\* bot_id = get_me(); prev_state_msg_id, state = find_latest_state_message(...);
\* the channels are read and the roster is updated
BatchLoadAndRead ==
    /\ script = "batch" /\ pc = "load"
    /\ \/ /\ BatchHandler(Exception("HTTPError", "401 Client Error"))
          /\ UNCHANGED <<roster, codes, added>>
       \/ \E st \in StoredRosters, cs \in SUBSET Codes, new_fids \in SUBSET Fids :
             /\ Cardinality(cs) * Len(UpdateRoster(st, new_fids)) <= MaxPairs
             /\ codes' = cs
             /\ added' = AddedFids(st, new_fids)
             /\ roster' = UpdateRoster(st, new_fids)
             /\ pc' = "scan"
             /\ UNCHANGED <<raised, had_unhandled_error, error_summary>>
    /\ UNCHANGED <<script, env_ok, exit_status, scan_i, code_i, fid_i,
                   ok_players, furnace_ups, ok_redeems, fail_redeems,
                   redeem_lines, status, attempt, calls, login_calls,
                   gift_requests, posts, othersRun>>

\* a level-up reported where the fetched level equals the stored one
LevelUpOrSame(prev, stove) == prev # <<>> /\ stove # <<>> /\ stove[1] >= prev[1]

\* prev is not None and stove is not None and int(stove) > int(prev)
LevelUp(prev, stove) == prev # <<>> /\ stove # <<>> /\ stove[1] > prev[1]

\* one iteration of "for fid, rec in roster.items()"
BatchScanStep ==
    /\ script = "batch" /\ pc = "scan" /\ scan_i <= Len(roster)
    /\ \/ \* post_form raises
          /\ BatchHandler(Exception("ConnectionError", "player"))
          /\ UNCHANGED <<roster, scan_i, ok_players, furnace_ups, player_js>>
       \/ \* hp == 200 and js.get("msg") == "success"
          \E stove \in StoveLevels :
             LET rec == roster[scan_i]
             IN  /\ player_js' = <<PlayerSuccess(stove)>>
                 /\ ok_players' = ok_players + 1
                 /\ roster' = [roster EXCEPT ![scan_i].stove = stove]
                 /\ furnace_ups' =
                       IF LevelUp(rec.stove, stove)
                         THEN Append(furnace_ups,
                                     [fid |-> rec.fid, prev |-> rec.stove, stove |-> stove])
                         ELSE furnace_ups
                 /\ scan_i' = scan_i + 1
                 /\ UNCHANGED <<pc, raised, had_unhandled_error, error_summary>>
       \/ \* the lookup failed
          /\ player_js' = <<PlayerFailure>>
          /\ scan_i' = scan_i + 1
          /\ UNCHANGED <<pc, roster, ok_players, furnace_ups, raised,
                         had_unhandled_error, error_summary>>
    /\ UNCHANGED <<script, env_ok, exit_status, codes, added, code_i, fid_i,
                   ok_redeems, fail_redeems, redeem_lines, status, attempt,
                   calls, login_calls, gift_requests, posts, othersScan>>

BatchPairs == Len(SortedCodes(codes)) * Len(SortedFids(RosterFids(roster)))

\* the scan is over: "with Redeemer() as rd" starts the browser
BatchEnterRedeemer ==
    /\ script = "batch" /\ pc = "scan" /\ scan_i > Len(roster)
    /\ \/ BatchHandler(Exception("Error", "BrowserType.launch"))
       \/ /\ pc' = IF BatchPairs > 0 THEN "pair" ELSE "save"
          /\ UNCHANGED <<raised, had_unhandled_error, error_summary>>
    /\ UNCHANGED <<script, env_ok, exit_status, roster, codes, added, scan_i,
                   code_i, fid_i, ok_players, furnace_ups, ok_redeems,
                   fail_redeems, redeem_lines, status, attempt, calls,
                   login_calls, gift_requests, posts, othersRun>>

BatchCode == SortedCodes(codes)[code_i]

BatchFid == SortedFids(RosterFids(roster))[fid_i]

\* the pair's bookkeeping after its attempts, and the step to the next pair
BatchFinishPair(st) ==
    LET ok    == st \in OkStatuses
        nfids == Len(SortedFids(RosterFids(roster)))
        last  == fid_i = nfids /\ code_i = Len(SortedCodes(codes))
    IN  /\ status' = st
        /\ ok_redeems' = ok_redeems + (IF ok THEN 1 ELSE 0)
        /\ fail_redeems' = fail_redeems + (IF ok THEN 0 ELSE 1)
        /\ redeem_lines' = Append(redeem_lines,
                                  [fid |-> BatchFid, code |-> BatchCode,
                                   ok |-> ok, status |-> st])
        /\ fid_i' = IF fid_i = nfids THEN 1 ELSE fid_i + 1
        /\ code_i' = IF fid_i = nfids THEN code_i + 1 ELSE code_i
        /\ pc' = IF last THEN "save" ELSE "pair"

\* ctx, page = rd.new_context(); logged_in = rd.login_fid(page, fid)
BatchPairStart ==
    /\ script = "batch" /\ pc = "pair"
    /\ \/ /\ BatchHandler(Exception("TimeoutError", "Page.goto"))
          /\ UNCHANGED <<status, ok_redeems, fail_redeems, redeem_lines, fid_i,
                         code_i, attempt, calls, login_calls>>
       \/ /\ \E logged_in \in BOOLEAN :
                IF logged_in
                  THEN /\ status' = "UNKNOWN"
                       /\ pc' = "attempt"
                       /\ UNCHANGED <<ok_redeems, fail_redeems, redeem_lines,
                                      fid_i, code_i>>
                  ELSE BatchFinishPair("NO_LOGIN")
          /\ attempt' = 0
          /\ calls' = 0
          /\ login_calls' = 1
          /\ UNCHANGED <<raised, had_unhandled_error, error_summary>>
    /\ UNCHANGED <<script, env_ok, exit_status, roster, codes, added, scan_i,
                   ok_players, furnace_ups, gift_requests, posts, othersRun>>

\* a retry that does not count as an attempt
BatchContinueUncounted(st) ==
    /\ status' = st
    /\ UNCHANGED <<attempt, pc, ok_redeems, fail_redeems, redeem_lines, fid_i, code_i>>

\* "continue": the next iteration of "for attempt in range(4)", or the end
\* of the loop
BatchContinue(st) ==
    IF attempt + 1 < BATCH_ATTEMPTS
      THEN /\ status' = st
           /\ attempt' = attempt + 1
           /\ UNCHANGED <<pc, ok_redeems, fail_redeems, redeem_lines, fid_i, code_i>>
      ELSE /\ attempt' = attempt + 1
           /\ BatchFinishPair(st)

\* "break"
BatchBreak(st) ==
    /\ BatchFinishPair(st)
    /\ UNCHANGED attempt

\* one iteration of the attempt loop: http, msg = rd.redeem_once(page, fid, code)
BatchAttempt ==
    /\ script = "batch" /\ pc = "attempt"
    /\ \/ \* redeem_once raises (ocr_captcha opens the image outside a try)
          /\ BatchHandler(Exception("UnidentifiedImageError", "cannot identify image file"))
          /\ UNCHANGED <<status, ok_redeems, fail_redeems, redeem_lines, fid_i,
                         code_i, attempt, calls, login_calls, gift_requests>>
       \/ \E r \in BatchResponses :
             LET http == r[1]
                 msg  == r[2]
             IN  /\ calls' = calls + 1
                 /\ UNCHANGED <<gift_requests, raised, had_unhandled_error,
                                error_summary>>
                 /\ IF In("SUCCESS", msg) THEN
                        BatchBreak("SUCCESS") /\ UNCHANGED login_calls
                    ELSE IF In("RECEIVED", msg) THEN
                        BatchBreak("ALREADY") /\ UNCHANGED login_calls
                    ELSE IF In("SAME TYPE EXCHANGE", msg) THEN
                        BatchBreak("SAME_TYPE") /\ UNCHANGED login_calls
                    ELSE IF In("TIME ERROR", msg) THEN
                        BatchBreak("EXPIRED") /\ UNCHANGED login_calls
                    ELSE IF In("CDK NOT FOUND", msg) THEN
                        BatchBreak("INVALID") /\ UNCHANGED login_calls
                    ELSE IF In("LOGIN", msg) THEN
                        \* try relogin once
                        /\ login_calls' = login_calls + 1
                        /\ \E relogged \in BOOLEAN :
                              IF relogged THEN BatchContinue("NO_LOGIN")
                                          ELSE BatchBreak("NO_LOGIN")
                    ELSE IF http = 429 \/ In("TOO MANY", msg) THEN
                        BatchContinue("RATE_LIMIT") /\ UNCHANGED login_calls
                    ELSE IF In("CAPTCHA", msg) \/ In("VERIFY", msg)
                            \/ In("SIGN", msg) \/ In("PARAMS", msg) THEN
                        BatchContinue("CAPTCHA_RETRY") /\ UNCHANGED login_calls
                    ELSE
                        /\ BatchBreak(IF msg # "" THEN msg ELSE HttpName(http))
                        /\ UNCHANGED login_calls
    /\ UNCHANGED <<script, env_ok, exit_status, roster, codes, added, scan_i,
                   ok_players, furnace_ups, posts, othersRun>>

\* the state is uploaded as wos_state.json (post_message_with_file and
\* delete_message catch every failure)
BatchSaveState ==
    /\ script = "batch" /\ pc = "save"
    /\ pc' = "summary"
    /\ UNCHANGED <<script, env_ok, exit_status, roster, codes, added, scan_i,
                   code_i, fid_i, ok_players, furnace_ups, ok_redeems,
                   fail_redeems, redeem_lines, status, attempt, calls,
                   login_calls, gift_requests, raised, had_unhandled_error,
                   error_summary, posts, othersRun>>

FirstLines(lines) ==
    SubSeq(lines, 1, IF Len(lines) > SUMMARY_LINES THEN SUMMARY_LINES ELSE Len(lines))

\* the "Daily Batch Summary" text, built from the variables the run has set
BatchSummary ==
    [kind         |-> "summary",
     ok_players   |-> ok_players,
     ok_redeems   |-> ok_redeems,
     fail_redeems |-> fail_redeems,
     error        |-> IF had_unhandled_error /\ error_summary # <<>>
                        THEN error_summary ELSE <<>>,
     added        |-> added,
     codes        |-> SortedCodes(codes),
     furnace_ups  |-> furnace_ups,
     lines        |-> FirstLines(redeem_lines)]

\* post_message(STATE_CH, summary + ...), whatever its result; sys.exit(0)
BatchPostSummary ==
    /\ script = "batch" /\ pc = "summary"
    /\ posts' = Append(posts, [kind |-> "summary", content |-> BatchSummary])
    /\ exit_status' = <<0>>
    /\ pc' = "done"
    /\ UNCHANGED <<script, env_ok, roster, codes, added, scan_i, code_i, fid_i,
                   ok_players, furnace_ups, ok_redeems, fail_redeems,
                   redeem_lines, status, attempt, calls, login_calls,
                   gift_requests, raised, had_unhandled_error, error_summary,
                   othersRun>>

NextBatch ==
    \/ BatchEnvCheck
    \/ BatchPostStart
    \/ BatchLoadAndRead
    \/ BatchScanStep
    \/ BatchEnterRedeemer
    \/ BatchPairStart
    \/ BatchAttempt
    \/ BatchSaveState
    \/ BatchPostSummary

SpecBatch == InitBatch /\ [][NextBatch]_vars

\* every sleep and every wait of the script has a timeout: a run that is
\* not over takes its next step
SpecBatchFair == SpecBatch /\ WF_vars(NextBatch)

(***************************************************************************)
(* cogs/daily_batch.py: one firing of DailyBatch.daily_loop                *)
(***************************************************************************)
\* the run variables a run starts with, but for script, pc, env_ok, roster
FreshRun ==
    /\ exit_status = <<>>
    /\ codes = {}
    /\ added = <<>>
    /\ scan_i = 1
    /\ code_i = 1
    /\ fid_i = 1
    /\ ok_players = 0
    /\ furnace_ups = <<>>
    /\ ok_redeems = 0
    /\ fail_redeems = 0
    /\ redeem_lines = <<>>
    /\ status = "UNKNOWN"
    /\ attempt = 0
    /\ calls = 0
    /\ login_calls = 0
    /\ gift_requests = <<>>
    /\ raised = <<>>
    /\ had_unhandled_error = FALSE
    /\ error_summary = <<>>
    /\ posts = <<>>

\* the bodies /api/gift_code answers with: JSON with a msg, or not JSON
CogBodies ==
    { [json |-> TRUE, msg |-> "SUCCESS"],
      [json |-> TRUE, msg |-> "CDK NOT FOUND."],
      [json |-> TRUE, msg |-> ""],
      [json |-> FALSE, msg |-> ""] }

\* the roster table holds the rows of earlier firings
InitCog ==
    /\ IdleSign
    /\ EmptyChan
    /\ IdleAux
    /\ script = "cog"
    /\ pc = "channels"
    /\ env_ok = TRUE
    /\ roster \in StoredRosters
    /\ FreshRun

\* daily_loop has no try/except around its awaits: an exception leaves the
\* coroutine at the call that raised it
CogRaise(e) ==
    /\ raised' = e
    /\ pc' = "ended"

\* codes_ch, ids_ch, summary = get_channel(...) or await fetch_channel(...)
CogFetchChannels ==
    /\ script = "cog" /\ pc = "channels"
    /\ \/ CogRaise(Exception("NotFound", "404 Unknown Channel"))
       \/ pc' = "read" /\ UNCHANGED raised
    /\ UNCHANGED <<script, env_ok, exit_status, roster, codes, added, scan_i,
                   code_i, fid_i, ok_players, furnace_ups, ok_redeems,
                   fail_redeems, redeem_lines, status, attempt, calls,
                   login_calls, gift_requests, had_unhandled_error,
                   error_summary, posts, othersRun>>

\* both histories are read, the checkpoints are stored, the new FIDs are
\* inserted: INSERT OR IGNORE INTO roster(fid); if rowcount: added.append(fid)
CogReadChannels ==
    /\ script = "cog" /\ pc = "read"
    /\ \/ /\ CogRaise(Exception("HTTPException", "history"))
          /\ UNCHANGED <<roster, codes, added>>
       \/ \E cs \in SUBSET Codes, new_fids \in SUBSET Fids :
             /\ codes' = cs
             /\ added' = AddedFids(roster, new_fids)
             /\ roster' = UpdateRoster(roster, new_fids)
             \* if not codes and not added: ... return
             /\ pc' = IF cs = {} /\ AddedFids(roster, new_fids) = <<>>
                        THEN "notice" ELSE "cookie"
             /\ UNCHANGED raised
    /\ UNCHANGED <<script, env_ok, exit_status, scan_i, code_i, fid_i,
                   ok_players, furnace_ups, ok_redeems, fail_redeems,
                   redeem_lines, status, attempt, calls, login_calls,
                   gift_requests, had_unhandled_error, error_summary, posts,
                   othersRun>>

\* await summary.send("Daily batch: no new codes or IDs today."); return
CogSendNotice ==
    /\ script = "cog" /\ pc = "notice"
    /\ \/ CogRaise(Exception("HTTPException", "send")) /\ UNCHANGED posts
       \/ /\ posts' = Append(posts, [kind |-> "notice"])
          /\ pc' = "ended"
          /\ UNCHANGED raised
    /\ UNCHANGED <<script, env_ok, exit_status, roster, codes, added, scan_i,
                   code_i, fid_i, ok_players, furnace_ups, ok_redeems,
                   fail_redeems, redeem_lines, status, attempt, calls,
                   login_calls, gift_requests, had_unhandled_error,
                   error_summary, othersRun>>

\* cookie = await self._get_cookie_header(): playwright is imported, the
\* browser is launched and the page is loaded with a 45 s timeout
CogGetCookie ==
    /\ script = "cog" /\ pc = "cookie"
    /\ \/ CogRaise(Exception("TimeoutError", "Page.goto: Timeout 45000ms exceeded"))
       \/ pc' = "scan" /\ UNCHANGED raised
    /\ UNCHANGED <<script, env_ok, exit_status, roster, codes, added, scan_i,
                   code_i, fid_i, ok_players, furnace_ups, ok_redeems,
                   fail_redeems, redeem_lines, status, attempt, calls,
                   login_calls, gift_requests, had_unhandled_error,
                   error_summary, posts, othersRun>>

\* one iteration of "for fid, prev_nick, prev_stove in roster"
CogScanStep ==
    /\ script = "cog" /\ pc = "scan" /\ scan_i <= Len(roster)
    /\ \/ \* _post_form raises (aiohttp.ClientError, asyncio.TimeoutError)
          /\ CogRaise(Exception("ClientConnectorError", "player"))
          /\ UNCHANGED <<roster, scan_i, ok_players, furnace_ups, player_js>>
       \/ \* hp == 200 and js.get("msg") == "success"
          \E stove \in StoveLevels :
             LET rec == roster[scan_i]
             IN  /\ player_js' = <<PlayerSuccess(stove)>>
                 /\ ok_players' = ok_players + 1
                 /\ roster' = [roster EXCEPT ![scan_i].stove = stove]
                 /\ furnace_ups' =
                       IF LevelUp(rec.stove, stove)
                         THEN Append(furnace_ups,
                                     [fid |-> rec.fid, prev |-> rec.stove, stove |-> stove])
                         ELSE furnace_ups
                 /\ scan_i' = scan_i + 1
                 /\ UNCHANGED <<pc, raised>>
       \/ \* the lookup failed
          /\ player_js' = <<PlayerFailure>>
          /\ scan_i' = scan_i + 1
          /\ UNCHANGED <<pc, roster, ok_players, furnace_ups, raised>>
    /\ UNCHANGED <<script, env_ok, exit_status, codes, added, code_i, fid_i,
                   ok_redeems, fail_redeems, redeem_lines, status, attempt,
                   calls, login_calls, gift_requests, had_unhandled_error,
                   error_summary, posts, othersScan>>

\* a redeem loop over the FIDs whose stove level is known only
all_fids_known_stove(r) == {r[i].fid : i \in {j \in 1..Len(r) : r[j].stove # <<>>}}

\* self.cur.execute("SELECT fid FROM roster"); all_fids = [r[0] for r in ...]
all_fids(r) == {r[i].fid : i \in 1..Len(r)}

CogCode == SortedCodes(codes)[code_i]

CogFid == SortedFids(all_fids(roster))[fid_i]

\* the scan is over; the redeem loop starts if it has a pair to visit
CogScanDone ==
    /\ script = "cog" /\ pc = "scan" /\ scan_i > Len(roster)
    /\ pc' = IF Len(SortedCodes(codes)) * Len(SortedFids(all_fids(roster))) > 0
               THEN "redeem" ELSE "summary"
    /\ UNCHANGED <<script, env_ok, exit_status, roster, codes, added, scan_i,
                   code_i, fid_i, ok_players, furnace_ups, ok_redeems,
                   fail_redeems, redeem_lines, status, attempt, calls,
                   login_calls, gift_requests, raised, had_unhandled_error,
                   error_summary, posts, othersRun>>

\* status of a gift_code answer
CogStatus(body) ==
    IF ~body.json THEN "PARSE_ERROR"
    ELSE IF In("SUCCESS", body.msg) THEN "SUCCESS"
    ELSE IF In("RECEIVED", body.msg) THEN "ALREADY"
    ELSE IF In("SAME TYPE EXCHANGE", body.msg) THEN "SAME_TYPE"
    ELSE IF In("TIME ERROR", body.msg) THEN "EXPIRED"
    ELSE IF In("CDK NOT FOUND", body.msg) THEN "INVALID"
    ELSE IF In("PARAMS", body.msg) THEN "PARAMS_ERROR"
    ELSE IF body.msg # "" THEN body.msg ELSE "UNKNOWN"

\* one iteration of "for code in sorted(codes): for fid in sorted(all_fids)"
CogRedeemStep ==
    /\ script = "cog" /\ pc = "redeem"
    /\ \/ \* _post_form raises
          /\ CogRaise(Exception("ClientConnectorError", "gift_code"))
          /\ UNCHANGED <<status, ok_redeems, fail_redeems, redeem_lines, fid_i,
                         code_i, gift_requests>>
       \/ \E body \in CogBodies :
             LET st    == CogStatus(body)
                 ok    == st \in OkStatuses
                 nfids == Len(SortedFids(all_fids(roster)))
                 last  == fid_i = nfids /\ code_i = Len(SortedCodes(codes))
             IN  /\ gift_requests' = Append(gift_requests,
                                            [fid |-> CogFid, code |-> CogCode])
                 /\ status' = st
                 /\ ok_redeems' = ok_redeems + (IF ok THEN 1 ELSE 0)
                 /\ fail_redeems' = fail_redeems + (IF ok THEN 0 ELSE 1)
                 /\ redeem_lines' = Append(redeem_lines,
                                           [fid |-> CogFid, code |-> CogCode,
                                            ok |-> ok, status |-> st])
                 /\ fid_i' = IF fid_i = nfids THEN 1 ELSE fid_i + 1
                 /\ code_i' = IF fid_i = nfids THEN code_i + 1 ELSE code_i
                 /\ pc' = IF last THEN "summary" ELSE "redeem"
                 /\ UNCHANGED raised
    /\ UNCHANGED <<script, env_ok, exit_status, roster, codes, added, scan_i,
                   ok_players, furnace_ups, attempt, calls, login_calls,
                   had_unhandled_error, error_summary, posts, othersRun>>

COG_ADDED_SHOWN == 20

COG_FURNACE_SHOWN == 15

\* s[:n]
Slice(s, n) == SubSeq(s, 1, IF Len(s) > n THEN n ELSE Len(s))

\* summary_text: the counters and the parts that are not empty
CogSummary ==
    [kind         |-> "summary",
     ok_players   |-> ok_players,
     ok_redeems   |-> ok_redeems,
     fail_redeems |-> fail_redeems,
     added        |-> Slice(added, COG_ADDED_SHOWN),
     codes        |-> SortedCodes(codes),
     furnace_ups  |-> Slice(furnace_ups, COG_FURNACE_SHOWN),
     lines        |-> Slice(redeem_lines, SUMMARY_LINES)]

\* await summary.send(summary_text)
CogSendSummary ==
    /\ script = "cog" /\ pc = "summary"
    /\ \/ CogRaise(Exception("HTTPException", "send")) /\ UNCHANGED posts
       \/ /\ posts' = Append(posts, [kind |-> "summary", content |-> CogSummary])
          /\ pc' = "ended"
          /\ UNCHANGED raised
    /\ UNCHANGED <<script, env_ok, exit_status, roster, codes, added, scan_i,
                   code_i, fid_i, ok_players, furnace_ups, ok_redeems,
                   fail_redeems, redeem_lines, status, attempt, calls,
                   login_calls, gift_requests, had_unhandled_error,
                   error_summary, othersRun>>

NextCog ==
    \/ CogFetchChannels
    \/ CogReadChannels
    \/ CogSendNotice
    \/ CogGetCookie
    \/ CogScanStep
    \/ CogScanDone
    \/ CogRedeemStep
    \/ CogSendSummary

SpecCog == InitCog /\ [][NextCog]_vars

(***************************************************************************)
(* The state kept as a Discord attachment: find_latest_state_message at    *)
(* the start of a run, the upload and the delete at its end                *)
(* (daily_discord_batch.py, _v2, _v3, _solver_free)                        *)
(***************************************************************************)
\* the number of newest messages find_latest_state_message looks at
STATE_WINDOW == 25

\* state messages created in the behaviours explored
MaxUploads == 3

\* bursts of other messages in the behaviours explored
MaxFloods == 1

\* n consecutive messages of one author, the first with this id (n > 1 only
\* for messages without a file)
Message(id, author, file, n) == [id |-> id, author |-> author, file |-> file, n |-> n]

\* the number of messages newer than element i of ch
RECURSIVE Newer(_, _)
Newer(ch, i) == IF i >= Len(ch) THEN 0 ELSE ch[i + 1].n + Newer(ch, i + 1)

\* GET /channels/{id}/messages?limit=n: the n newest messages, newest first
latest_messages(ch, limit) ==
    LET inside == {i \in 1..Len(ch) : Newer(ch, i) < limit}
    IN  [k \in 1..Cardinality(inside) |-> ch[Len(ch) + 1 - k]]

\* the id of the newest message among the 25 newest that the bot wrote and
\* that has an attachment named wos_state.json; <<>> if there is none
find_latest_state_message(ch) ==
    LET w    == latest_messages(ch, STATE_WINDOW)
        hits == {i \in DOMAIN w : w[i].author = "bot" /\ w[i].file = "wos_state.json"}
    IN  IF hits = {} THEN <<>>
        ELSE <<w[CHOOSE i \in hits : \A j \in hits : i <= j].id>>

\* the previous state message is deleted whatever the upload returned
delete_wanted_always(m, prev) == prev # <<>>

\* if msg and "id" in msg and prev_state_msg_id
delete_wanted(m, prev) == m # <<>> /\ prev # <<>>

\* DELETE /channels/{id}/messages/{message_id}
Without(ch, id) == SelectSeq(ch, LAMBDA m : m.id # id)

InitState ==
    /\ IdleSign
    /\ script = "none"
    /\ pc = "idle"
    /\ env_ok = TRUE
    /\ roster = <<>>
    /\ FreshRun
    /\ EmptyChan
    /\ IdleAux

\* a run starts: bot_id = get_me();
\* prev_state_msg_id, state = find_latest_state_message(STATE_CH, bot_id)
StateLoad(r) ==
    /\ st_pc[r] = "idle"
    /\ \/ \* the GET is refused or fails: return None, {}
          prev_state_msg_id' = [prev_state_msg_id EXCEPT ![r] = <<>>]
       \/ prev_state_msg_id' =
             [prev_state_msg_id EXCEPT ![r] = find_latest_state_message(channel)]
    /\ upload_msg' = [upload_msg EXCEPT ![r] = <<>>]
    /\ st_pc' = [st_pc EXCEPT ![r] = "run"]
    /\ UNCHANGED <<channel, next_id, uploads, floods, saved, varsSign, varsScript, varsAux>>

\* the run reads the channels, scans and redeems; an exception takes it to
\* its handler, past the save
StateRunBody(r) ==
    /\ st_pc[r] = "run"
    /\ \/ st_pc' = [st_pc EXCEPT ![r] = "save"]
       \/ st_pc' = [st_pc EXCEPT ![r] = "idle"]
    /\ UNCHANGED <<channel, next_id, uploads, floods, prev_state_msg_id, upload_msg,
                   saved, varsSign, varsScript, varsAux>>

\* msg = post_message_with_file(STATE_CH, "WOSBOT_STATE ...", "wos_state.json", ...)
StateUpload(r) ==
    /\ st_pc[r] = "save"
    /\ \/ \* r.ok: the message is created and its JSON, with its id, returned
          /\ uploads < MaxUploads
          /\ channel' = Append(channel, Message(next_id, "bot", "wos_state.json", 1))
          /\ next_id' = next_id + 1
          /\ uploads' = uploads + 1
          /\ upload_msg' = [upload_msg EXCEPT ![r] = <<next_id>>]
          /\ saved' = TRUE
          /\ st_pc' = [st_pc EXCEPT ![r] = "uploaded"]
       \/ \* not r.ok, or daily_discord_batch.py caught an exception: {}
          /\ upload_msg' = [upload_msg EXCEPT ![r] = <<>>]
          /\ st_pc' = [st_pc EXCEPT ![r] = "uploaded"]
          /\ UNCHANGED <<channel, next_id, uploads, saved>>
       \/ \* the request raises (v2, v3, solver_free) before Discord created
          \* the message: the handler is entered, the delete is skipped
          /\ st_pc' = [st_pc EXCEPT ![r] = "idle"]
          /\ UNCHANGED <<channel, next_id, uploads, upload_msg, saved>>
       \/ \* the request raises after Discord created the message (the
          \* answer is lost)
          /\ uploads < MaxUploads
          /\ channel' = Append(channel, Message(next_id, "bot", "wos_state.json", 1))
          /\ next_id' = next_id + 1
          /\ uploads' = uploads + 1
          /\ st_pc' = [st_pc EXCEPT ![r] = "idle"]
          /\ UNCHANGED <<upload_msg, saved>>
    /\ UNCHANGED <<floods, prev_state_msg_id, varsSign, varsScript, varsAux>>

\* if msg and "id" in msg and prev_state_msg_id:
\*     delete_message(STATE_CH, prev_state_msg_id)
StateDelete(r) ==
    /\ st_pc[r] = "uploaded"
    /\ IF delete_wanted(upload_msg[r], prev_state_msg_id[r])
         THEN \/ channel' = Without(channel, prev_state_msg_id[r][1])
              \/ \* the DELETE is refused or raises: nothing is reported
                 UNCHANGED channel
         ELSE UNCHANGED channel
    /\ st_pc' = [st_pc EXCEPT ![r] = "idle"]
    /\ UNCHANGED <<next_id, uploads, floods, prev_state_msg_id, upload_msg, saved,
                   varsSign, varsScript, varsAux>>

\* other messages are posted to the state channel (the runs' own notices and
\* summaries, people's messages): enough of them to move every older message
\* out of the 25 newest
ChannelFlood ==
    /\ floods < MaxFloods
    /\ floods' = floods + 1
    /\ channel' = Append(channel, Message(next_id, "user", "", STATE_WINDOW))
    /\ next_id' = next_id + STATE_WINDOW
    /\ UNCHANGED <<uploads, st_pc, prev_state_msg_id, upload_msg, saved, varsSign, varsScript, varsAux>>

\* somebody else posts a file named wos_state.json
UserPostsStateFile ==
    /\ \A i \in 1..Len(channel) : ~(channel[i].author = "user" /\ channel[i].file # "")
    /\ uploads < MaxUploads
    /\ channel' = Append(channel, Message(next_id, "user", "wos_state.json", 1))
    /\ next_id' = next_id + 1
    /\ UNCHANGED <<uploads, floods, st_pc, prev_state_msg_id, upload_msg, saved,
                   varsSign, varsScript, varsAux>>

NextState ==
    \/ \E r \in Runs : StateLoad(r)
    \/ \E r \in Runs : StateRunBody(r)
    \/ \E r \in Runs : StateUpload(r)
    \/ \E r \in Runs : StateDelete(r)
    \/ ChannelFlood
    \/ UserPostsStateFile

SpecState == InitState /\ [][NextState]_vars

(***************************************************************************)
(* scripts/run_wos_redeem.py                                               *)
(***************************************************************************)
\* the FIDS of the environment hold at most this many entries
MaxFids == 3

\* FIDS = [x.strip() for x in os.environ.get("FIDS","").split(",") if x.strip()]
\* (a list: an entry may occur twice), each entry with the stove level seen
WosFidLists ==
    UNION { [1..n -> {NewRecord(f) : f \in Fids}] : n \in 0..MaxFids }

\* if not SECRET or not CODE or not FIDS: the check fails on an empty list
InitWos ==
    /\ IdleSign
    /\ EmptyChan
    /\ IdleAux
    /\ script = "run_wos_redeem"
    /\ pc = "env"
    /\ roster \in WosFidLists
    /\ env_ok \in {e \in BOOLEAN : roster = <<>> => ~e}
    /\ FreshRun

\* an exception nothing catches: the traceback is printed and the
\* interpreter exits with status 1
WosUncaught(e) ==
    /\ raised' = e
    /\ exit_status' = <<1>>
    /\ pc' = "done"

\* if not SECRET or not CODE or not FIDS: print(...); sys.exit(1)
WosEnvCheck ==
    /\ script = "run_wos_redeem" /\ pc = "env"
    /\ IF env_ok
         THEN \E c \in Codes : codes' = {c} /\ pc' = "cookie" /\ UNCHANGED exit_status
         ELSE pc' = "done" /\ exit_status' = <<1>> /\ UNCHANGED codes
    /\ UNCHANGED <<script, env_ok, roster, added, scan_i, code_i, fid_i,
                   ok_players, furnace_ups, ok_redeems, fail_redeems,
                   redeem_lines, status, attempt, calls, login_calls,
                   gift_requests, raised, had_unhandled_error, error_summary,
                   posts, othersRun>>

\* with sync_playwright() as p: ... page.goto(REFERER, timeout=45000)
WosGetCookie ==
    /\ script = "run_wos_redeem" /\ pc = "cookie"
    /\ \/ WosUncaught(Exception("TimeoutError", "Page.goto: Timeout 45000ms exceeded"))
       \/ pc' = "player" /\ UNCHANGED <<raised, exit_status>>
    /\ UNCHANGED <<script, env_ok, roster, codes, added, scan_i, code_i, fid_i,
                   ok_players, furnace_ups, ok_redeems, fail_redeems,
                   redeem_lines, status, attempt, calls, login_calls,
                   gift_requests, had_unhandled_error, error_summary, posts,
                   othersRun>>

\* "for fid in FIDS": the player lookup of the next FID
WosPlayer ==
    /\ script = "run_wos_redeem" /\ pc = "player" /\ scan_i <= Len(roster)
    /\ \/ \* requests.post raises
          /\ WosUncaught(Exception("ConnectionError", "player"))
          /\ UNCHANGED <<roster, scan_i, ok_players>>
       \/ \* http_p == 200 and js.get("msg") == "success"
          \E stove \in StoveLevels :
             /\ roster' = [roster EXCEPT ![scan_i].stove = stove]
             /\ ok_players' = ok_players + 1
             /\ pc' = "gift"
             /\ UNCHANGED <<scan_i, raised, exit_status>>
       \/ \* PLAYER FAIL: continue
          /\ scan_i' = scan_i + 1
          /\ UNCHANGED <<pc, roster, ok_players, raised, exit_status>>
    /\ UNCHANGED <<script, env_ok, codes, added, code_i, fid_i, furnace_ups,
                   ok_redeems, fail_redeems, redeem_lines, status, attempt,
                   calls, login_calls, gift_requests, had_unhandled_error,
                   error_summary, posts, othersRun>>

\* the gift_code request of the FID whose lookup succeeded
WosGift ==
    /\ script = "run_wos_redeem" /\ pc = "gift"
    /\ \/ \* requests.post raises
          /\ WosUncaught(Exception("ReadTimeout", "gift_code"))
          /\ UNCHANGED <<scan_i, status, ok_redeems, fail_redeems, gift_requests>>
       \/ \E body \in CogBodies, c \in codes :
             LET st == CogStatus(body)
                 ok == st \in OkStatuses
             IN  /\ gift_requests' = Append(gift_requests,
                                            [fid |-> roster[scan_i].fid, code |-> c])
                 /\ status' = st
                 /\ ok_redeems' = ok_redeems + (IF ok THEN 1 ELSE 0)
                 /\ fail_redeems' = fail_redeems + (IF ok THEN 0 ELSE 1)
                 /\ scan_i' = scan_i + 1
                 /\ pc' = "player"
                 /\ UNCHANGED <<raised, exit_status>>
    /\ UNCHANGED <<script, env_ok, roster, codes, added, code_i, fid_i,
                   ok_players, furnace_ups, redeem_lines, attempt, calls,
                   login_calls, had_unhandled_error, error_summary, posts,
                   othersRun>>

\* the exit test without its first disjunct
everything_failed_redeems_only(okp, okr, failr) == okr = 0 /\ failr > 0

\* ok_players == 0 or (ok_redeems == 0 and fail_redeems > 0)
everything_failed(okp, okr, failr) == okp = 0 \/ (okr = 0 /\ failr > 0)

\* the loop is over: sys.exit(2) if everything failed, else "END run"
WosExit ==
    /\ script = "run_wos_redeem" /\ pc = "player" /\ scan_i > Len(roster)
    /\ exit_status' = IF everything_failed(ok_players, ok_redeems, fail_redeems)
                        THEN <<2>> ELSE <<0>>
    /\ pc' = "done"
    /\ UNCHANGED <<script, env_ok, roster, codes, added, scan_i, code_i, fid_i,
                   ok_players, furnace_ups, ok_redeems, fail_redeems,
                   redeem_lines, status, attempt, calls, login_calls,
                   gift_requests, raised, had_unhandled_error, error_summary,
                   posts, othersRun>>

NextWos ==
    \/ WosEnvCheck
    \/ WosGetCookie
    \/ WosPlayer
    \/ WosGift
    \/ WosExit

SpecWos == InitWos /\ [][NextWos]_vars

(***************************************************************************)
(* scripts/daily_discord_batch_v3.py: the redeem loop and                  *)
(* Redeemer.redeem_one                                                     *)
(***************************************************************************)
V3_ATTEMPTS == 4

\* what ocr_read returns: "" or the best guess of 3 to 8 characters
OcrGuesses == { <<>>, <<"A", "B", "1">>, <<"A", "B", "1", "2">> }

\* the upper-cased text found on the page after Confirm
V3Texts ==
    { "SUCCESS", "RECEIVED.", "SAME TYPE EXCHANGE.", "CDK NOT FOUND.",
      "TIME ERROR.", "CODE EXPIRED.", "CAPTCHA CHECK ERROR.", "NOT LOGIN.", "" }

\* the rosters and codes of a run that has pairs to redeem
InitV3 ==
    /\ IdleSign
    /\ EmptyChan
    /\ IdleAux
    /\ script = "v3"
    /\ pc = "pair"
    /\ env_ok = TRUE
    /\ roster \in {r \in StoredRosters : r # <<>>}
    /\ exit_status = <<>>
    /\ codes \in {cs \in SUBSET Codes : cs # {}}
    /\ Cardinality(codes) * Len(roster) <= MaxPairs
    /\ added = <<>>
    /\ scan_i = 1
    /\ code_i = 1
    /\ fid_i = 1
    /\ ok_players = 0
    /\ furnace_ups = <<>>
    /\ ok_redeems = 0
    /\ fail_redeems = 0
    /\ redeem_lines = <<>>
    /\ status = "UNKNOWN"
    /\ attempt = 0
    /\ calls = 0
    /\ login_calls = 0
    /\ gift_requests = <<>>
    /\ raised = <<>>
    /\ had_unhandled_error = FALSE
    /\ error_summary = <<>>
    /\ posts = <<>>

\* f"ERROR:{type(e).__name__}"
ErrorStatus(e) ==
    CASE e.type = "Error" -> "ERROR:Error"
      [] OTHER            -> "ERROR:Exception"

\* except PWTimeout: status = "NO_LOGIN"
\* except Exception as e: status = f"ERROR:{type(e).__name__}"
V3Handler(e) ==
    /\ status' = IF e.type = "TimeoutError" THEN "NO_LOGIN" ELSE ErrorStatus(e)
    /\ pc' = "return"

\* redeem_one starts: status = "UNKNOWN"; page.goto; _login_with_fid(fid);
\* the gift code is typed
V3RedeemOne ==
    /\ script = "v3" /\ pc = "pair"
    /\ \/ \E e \in {Exception("TimeoutError", "wait_for_selector"),
                    Exception("Error", "Page.goto: net::ERR")} :
             V3Handler(e) /\ UNCHANGED attempt
       \/ /\ status' = "UNKNOWN"
          /\ attempt' = 0
          /\ pc' = "captcha"
    /\ calls' = 0
    /\ UNCHANGED <<script, env_ok, exit_status, roster, codes, added, scan_i,
                   code_i, fid_i, ok_players, furnace_ups, ok_redeems,
                   fail_redeems, redeem_lines, login_calls, gift_requests,
                   raised, had_unhandled_error, error_summary, posts, othersRun>>

\* "continue": the next iteration of "for attempt in range(4)", or its end
V3Continue(st) ==
    /\ status' = st
    /\ attempt' = attempt + 1
    /\ pc' = IF attempt + 1 < V3_ATTEMPTS THEN "captcha" ELSE "return"

\* "break"
V3Break(st) ==
    /\ status' = st
    /\ pc' = "return"
    /\ UNCHANGED attempt

\* one iteration of the captcha loop
V3Attempt ==
    /\ script = "v3" /\ pc = "captcha"
    /\ \E guess \in OcrGuesses :
          IF guess = <<>> \/ Len(guess) < 4
            THEN \* self._refresh_captcha(); continue
                 /\ \/ V3Continue(status)
                    \/ V3Handler(Exception("TimeoutError", "Page.reload")) /\ UNCHANGED attempt
                 /\ UNCHANGED calls
            ELSE \* the guess is typed and Confirm is clicked
                 /\ calls' = calls + 1
                 /\ \/ \* reading the page raises: status = "ERROR:DOM_PARSE"; break
                       V3Break("ERROR:DOM_PARSE")
                    \/ \E U \in V3Texts :
                          IF In("SUCCESS", U) THEN V3Break("SUCCESS")
                          ELSE IF In("RECEIVED", U) THEN V3Break("ALREADY")
                          ELSE IF In("SAME TYPE", U) THEN V3Break("SAME_TYPE")
                          ELSE IF In("CDK NOT FOUND", U) THEN V3Break("INVALID")
                          ELSE IF In("TIME ERROR", U) \/ In("EXPIRED", U) THEN V3Break("EXPIRED")
                          ELSE IF In("CAPTCHA", U) \/ In("VERIFY", U) THEN V3Continue("CAPTCHA_RETRY")
                          ELSE IF In("LOGIN", U) THEN V3Break("NO_LOGIN")
                          ELSE IF attempt < 3 THEN V3Continue("CAPTCHA_RETRY")
                          ELSE V3Break("NO_RESPONSE")
    /\ UNCHANGED <<script, env_ok, exit_status, roster, codes, added, scan_i,
                   code_i, fid_i, ok_players, furnace_ups, ok_redeems,
                   fail_redeems, redeem_lines, login_calls, gift_requests,
                   raised, had_unhandled_error, error_summary, posts, othersRun>>

\* return status; the caller counts it and records the pair's line
V3Return ==
    /\ script = "v3" /\ pc = "return"
    /\ LET ok    == status \in OkStatuses
           fs    == SortedFids(RosterFids(roster))
           last  == fid_i = Len(fs) /\ code_i = Len(SortedCodes(codes))
       IN  /\ ok_redeems' = ok_redeems + (IF ok THEN 1 ELSE 0)
           /\ fail_redeems' = fail_redeems + (IF ok THEN 0 ELSE 1)
           /\ redeem_lines' = Append(redeem_lines,
                                     [fid |-> fs[fid_i], code |-> SortedCodes(codes)[code_i],
                                      ok |-> ok, status |-> status])
           /\ fid_i' = IF fid_i = Len(fs) THEN 1 ELSE fid_i + 1
           /\ code_i' = IF fid_i = Len(fs) THEN code_i + 1 ELSE code_i
           /\ pc' = IF last THEN "save" ELSE "pair"
    /\ UNCHANGED <<script, env_ok, exit_status, roster, codes, added, scan_i,
                   ok_players, furnace_ups, status, attempt, calls,
                   login_calls, gift_requests, raised, had_unhandled_error,
                   error_summary, posts, othersRun>>

NextV3 ==
    \/ V3RedeemOne
    \/ V3Attempt
    \/ V3Return

SpecV3 == InitV3 /\ [][NextV3]_vars

(***************************************************************************)
(* The exit status of daily_discord_batch.py, daily_discord_batch_v2.py    *)
(* and daily_discord_batch_solver_free.py                                  *)
(***************************************************************************)
ExitScripts == {"batch", "v2", "solver_free"}

InitExit ==
    /\ IdleSign
    /\ EmptyChan
    /\ IdleAux
    /\ script \in ExitScripts
    /\ pc = "env"
    /\ env_ok \in BOOLEAN
    /\ roster = <<>>
    /\ FreshRun

\* post_message wraps its request in try/except in daily_discord_batch.py
\* only
post_message_catches(sc) == sc = "batch"

\* if not all([...]): sys.exit(0)
ExitEnvCheck ==
    /\ script \in ExitScripts /\ pc = "env"
    /\ IF env_ok
         THEN pc' = "start" /\ UNCHANGED exit_status
         ELSE pc' = "done" /\ exit_status' = <<0>>
    /\ UNCHANGED <<script, env_ok, roster, codes, added, scan_i, code_i, fid_i,
                   ok_players, furnace_ups, ok_redeems, fail_redeems,
                   redeem_lines, status, attempt, calls, login_calls,
                   gift_requests, raised, had_unhandled_error, error_summary,
                   posts, othersRun>>

\* post_message(STATE_CH, ...) at module level, outside the try: the message
\* is delivered, refused (not r.ok), or requests.post raises; what is not
\* caught ends the process with status 1
ExitPost(kind, next, status_after) ==
    \E outcome \in {"delivered", "refused", "raises"} :
       IF outcome = "raises" /\ ~post_message_catches(script)
         THEN /\ raised' = Exception("ConnectionError", "discord.com")
              /\ exit_status' = <<1>>
              /\ pc' = "done"
              /\ UNCHANGED posts
         ELSE /\ posts' = Append(posts, [kind |-> kind, result |-> outcome])
              /\ exit_status' = status_after
              /\ pc' = next
              /\ UNCHANGED raised

\* post_message(STATE_CH, "... starting")
ExitPostStart ==
    /\ script \in ExitScripts /\ pc = "start"
    /\ ExitPost("start", "load", <<>>)
    /\ UNCHANGED <<script, env_ok, roster, codes, added, scan_i, code_i, fid_i,
                   ok_players, furnace_ups, ok_redeems, fail_redeems,
                   redeem_lines, status, attempt, calls, login_calls,
                   gift_requests, had_unhandled_error, error_summary, othersRun>>

\* except Exception as e: had_unhandled_error = True; error_summary = ...
ExitHandler(e) ==
    /\ had_unhandled_error' = TRUE
    /\ error_summary' = ErrorSummary(e)
    /\ pc' = "summary"

\* inside the try: get_me() and the state are loaded, the channels are read
ExitLoad ==
    /\ script \in ExitScripts /\ pc = "load"
    /\ \/ ExitHandler(Exception("HTTPError", "401 Client Error")) /\ UNCHANGED codes
       \/ \E cs \in SUBSET Codes :
             /\ codes' = cs
             /\ pc' = "vendor"
             /\ UNCHANGED <<had_unhandled_error, error_summary>>
    /\ UNCHANGED <<script, env_ok, exit_status, roster, added, scan_i, code_i,
                   fid_i, ok_players, furnace_ups, ok_redeems, fail_redeems,
                   redeem_lines, status, attempt, calls, login_calls,
                   gift_requests, raised, posts, othersRun>>

\* inside the try: the vendor requests; one that fails is counted, one that
\* raises enters the handler
ExitVendor ==
    /\ script \in ExitScripts /\ pc = "vendor"
    /\ \/ /\ ExitHandler(Exception("ConnectionError", "wos-giftcode-api"))
          /\ UNCHANGED <<ok_players, ok_redeems, fail_redeems>>
       \/ \E p \in 0..1, okr \in 0..1 :
             /\ ok_players' = p
             /\ ok_redeems' = IF codes = {} THEN 0 ELSE okr
             /\ fail_redeems' = IF codes = {} THEN 0 ELSE 1 - okr
             /\ pc' = "summary"
             /\ UNCHANGED <<had_unhandled_error, error_summary>>
    /\ UNCHANGED <<script, env_ok, exit_status, roster, codes, added, scan_i,
                   code_i, fid_i, furnace_ups, redeem_lines, status, attempt,
                   calls, login_calls, gift_requests, raised, posts, othersRun>>

\* post_message(STATE_CH, summary + ...); sys.exit(0)
ExitPostSummary ==
    /\ script \in ExitScripts /\ pc = "summary"
    /\ ExitPost("summary", "done", <<0>>)
    /\ UNCHANGED <<script, env_ok, roster, codes, added, scan_i, code_i, fid_i,
                   ok_players, furnace_ups, ok_redeems, fail_redeems,
                   redeem_lines, status, attempt, calls, login_calls,
                   gift_requests, had_unhandled_error, error_summary, othersRun>>

NextExit ==
    \/ ExitEnvCheck
    \/ ExitPostStart
    \/ ExitLoad
    \/ ExitVendor
    \/ ExitPostSummary

SpecExit == InitExit /\ [][NextExit]_vars

(***************************************************************************)
(* scripts/daily_discord_batch_solver_free.py: the redeem loop             *)
(***************************************************************************)
SOLVER_FREE_ATTEMPTS == 3

\* (http, upper-cased msg) answers of redeem_once
SfResponses ==
    { <<200, "SUCCESS">>, <<200, "CDK NOT FOUND.">>, <<429, "">>,
      <<200, "TOO MANY ATTEMPTS.">>, <<200, "SIGN ERROR.">>,
      <<200, "PARAMS ERROR.">>, <<405, "">>, <<200, "CAPTCHA CHECK ERROR.">>,
      <<500, "">> }

\* what get_working_captcha returns: a text of 4 to 8 characters, or ""
WorkingCaptchas == { <<>>, <<"A", "B", "1", "2">> }

\* the run has scanned the roster; CAPTCHA = get_working_captcha(sess)
InitSF ==
    /\ IdleSign
    /\ EmptyChan
    /\ script = "solver_free"
    /\ pc = "pair"
    /\ env_ok = TRUE
    /\ roster \in {r \in StoredRosters : r # <<>>}
    /\ exit_status = <<>>
    /\ codes \in {cs \in SUBSET Codes : cs # {}}
    /\ Cardinality(codes) * Len(roster) <= MaxPairs
    /\ added = <<>>
    /\ scan_i = 1
    /\ code_i = 1
    /\ fid_i = 1
    /\ ok_players = 0
    /\ furnace_ups = <<>>
    /\ ok_redeems = 0
    /\ fail_redeems = 0
    /\ redeem_lines = <<>>
    /\ status = "UNKNOWN"
    /\ attempt = 0
    /\ calls = 0
    /\ login_calls = 0
    /\ gift_requests = <<>>
    /\ raised = <<>>
    /\ had_unhandled_error = FALSE
    /\ error_summary = <<>>
    /\ posts = <<>>
    /\ CAPTCHA \in WorkingCaptchas
    /\ captcha_refreshed = FALSE
    /\ IdleBackoff
    /\ IdleV2
    /\ IdleOcr
    /\ IdleScan
    /\ IdleCk

othersSF == <<form, sign, req, varsChan, varsBackoff, varsV2, varsOcr, varsScan, varsCk>>

SfCode == SortedCodes(codes)[code_i]

SfFid == SortedFids(RosterFids(roster))[fid_i]

\* except Exception as e: the redeem loop is left for the summary
SfHandler(e) ==
    /\ raised' = e
    /\ had_unhandled_error' = TRUE
    /\ error_summary' = ErrorSummary(e)
    /\ pc' = "summary"

\* "for fid in sorted(roster.keys())": status = "UNKNOWN" and the attempt
\* loop starts
SfPairStart ==
    /\ script = "solver_free" /\ pc = "pair"
    /\ status' = "UNKNOWN"
    /\ attempt' = 0
    /\ calls' = 0
    /\ pc' = "attempt"
    /\ UNCHANGED <<script, env_ok, exit_status, roster, codes, added, scan_i,
                   code_i, fid_i, ok_players, furnace_ups, ok_redeems,
                   fail_redeems, redeem_lines, login_calls, gift_requests,
                   raised, had_unhandled_error, error_summary, posts,
                   varsCaptcha, othersSF>>

\* the pair's bookkeeping after its attempts, and the step to the next pair
SfFinishPair(st) ==
    LET ok    == st \in OkStatuses
        nfids == Len(SortedFids(RosterFids(roster)))
        last  == fid_i = nfids /\ code_i = Len(SortedCodes(codes))
    IN  /\ status' = st
        /\ ok_redeems' = ok_redeems + (IF ok THEN 1 ELSE 0)
        /\ fail_redeems' = fail_redeems + (IF ok THEN 0 ELSE 1)
        /\ redeem_lines' = Append(redeem_lines,
                                  [fid |-> SfFid, code |-> SfCode,
                                   ok |-> ok, status |-> st])
        /\ fid_i' = IF fid_i = nfids THEN 1 ELSE fid_i + 1
        /\ code_i' = IF fid_i = nfids THEN code_i + 1 ELSE code_i
        /\ pc' = IF last THEN "save" ELSE "pair"

\* a retry that does not use up an iteration
SfContinueUncounted(st) ==
    /\ status' = st
    /\ UNCHANGED <<attempt, pc, ok_redeems, fail_redeems, redeem_lines, fid_i, code_i>>

\* "continue": the next iteration of "for attempt in range(3)", or its end
SfContinue(st) ==
    IF attempt + 1 < SOLVER_FREE_ATTEMPTS
      THEN /\ status' = st
           /\ attempt' = attempt + 1
           /\ UNCHANGED <<pc, ok_redeems, fail_redeems, redeem_lines, fid_i, code_i>>
      ELSE /\ attempt' = attempt + 1
           /\ SfFinishPair(st)

\* "break"
SfBreak(st) ==
    /\ SfFinishPair(st)
    /\ UNCHANGED attempt

\* one iteration of the attempt loop
SfAttempt ==
    /\ script = "solver_free" /\ pc = "attempt"
    /\ IF CAPTCHA = <<>>
         THEN \* if not CAPTCHA: status = "NO_CAPTCHA"; break
              /\ SfBreak("NO_CAPTCHA")
              /\ UNCHANGED <<calls, gift_requests, CAPTCHA, captcha_refreshed,
                             raised, had_unhandled_error, error_summary>>
         ELSE \/ \* post_form raises inside redeem_once
                 /\ SfHandler(Exception("ConnectionError", "gift_code"))
                 /\ UNCHANGED <<status, ok_redeems, fail_redeems, redeem_lines,
                                fid_i, code_i, attempt, calls, gift_requests,
                                CAPTCHA, captcha_refreshed>>
              \/ \E r \in SfResponses :
                    LET http == r[1]
                        msg  == r[2]
                    IN  /\ calls' = calls + 1
                        /\ gift_requests' = Append(gift_requests,
                                                   [fid |-> SfFid, code |-> SfCode])
                        /\ IF In("SUCCESS", msg) THEN
                               /\ SfBreak("SUCCESS")
                               /\ captcha_refreshed' = FALSE
                               /\ UNCHANGED <<CAPTCHA, raised, had_unhandled_error, error_summary>>
                           ELSE IF In("RECEIVED", msg) THEN
                               /\ SfBreak("ALREADY")
                               /\ captcha_refreshed' = FALSE
                               /\ UNCHANGED <<CAPTCHA, raised, had_unhandled_error, error_summary>>
                           ELSE IF In("SAME TYPE EXCHANGE", msg) THEN
                               /\ SfBreak("SAME_TYPE")
                               /\ captcha_refreshed' = FALSE
                               /\ UNCHANGED <<CAPTCHA, raised, had_unhandled_error, error_summary>>
                           ELSE IF In("TIME ERROR", msg) THEN
                               /\ SfBreak("EXPIRED")
                               /\ captcha_refreshed' = FALSE
                               /\ UNCHANGED <<CAPTCHA, raised, had_unhandled_error, error_summary>>
                           ELSE IF In("CDK NOT FOUND", msg) THEN
                               /\ SfBreak("INVALID")
                               /\ captcha_refreshed' = FALSE
                               /\ UNCHANGED <<CAPTCHA, raised, had_unhandled_error, error_summary>>
                           ELSE IF http = 429 \/ In("TOO MANY", msg) THEN
                               /\ SfContinue("RATE_LIMIT")
                               /\ captcha_refreshed' = FALSE
                               /\ UNCHANGED <<CAPTCHA, raised, had_unhandled_error, error_summary>>
                           ELSE IF In("SIGN", msg) \/ In("PARAMS", msg) \/ http = 405 THEN
                               \* sess.refresh_captcha();
                               \* CAPTCHA = get_working_captcha(sess)
                               \/ /\ SfContinue("SIGN_OR_PARAMS")
                                  /\ captcha_refreshed' = TRUE
                                  /\ CAPTCHA' \in WorkingCaptchas
                                  /\ UNCHANGED <<raised, had_unhandled_error, error_summary>>
                               \/ \* the browser raises during the refresh
                                  /\ SfHandler(Exception("TimeoutError", "refresh_captcha"))
                                  /\ status' = "SIGN_OR_PARAMS"
                                  /\ captcha_refreshed' = FALSE
                                  /\ UNCHANGED <<ok_redeems, fail_redeems, redeem_lines,
                                                 fid_i, code_i, attempt, CAPTCHA>>
                           ELSE
                               /\ SfBreak(IF msg # "" THEN msg ELSE HttpName(http))
                               /\ captcha_refreshed' = FALSE
                               /\ UNCHANGED <<CAPTCHA, raised, had_unhandled_error, error_summary>>
    /\ UNCHANGED <<script, env_ok, exit_status, roster, codes, added, scan_i,
                   ok_players, furnace_ups, login_calls, posts, othersSF>>

NextSF ==
    \/ SfPairStart
    \/ SfAttempt

SpecSF == InitSF /\ [][NextSF]_vars

\* every sleep of the loop is finite and every request has a timeout: a loop
\* that is not over takes its next step
SpecSFFair == SpecSF /\ WF_vars(NextSF)

(***************************************************************************)
(* scripts/daily_discord_batch_v2.py: redeem_with_backoff                  *)
(***************************************************************************)
\* a shorter list of waits
backoffs_three == <<2, 4, 8>>

\* backoffs = [2, 4, 8, 16]
backoffs == <<2, 4, 8, 16>>

\* the (http, body) answers of redeem_once
BackoffAnswers ==
    { [http |-> 200, body |-> "SUCCESS"], [http |-> 200, body |-> "SIGN ERROR."],
      [http |-> 429, body |-> ""], [http |-> 403, body |-> "FORBIDDEN"],
      [http |-> 405, body |-> ""], [http |-> 500, body |-> ""] }

othersBackoff == <<form, sign, req, varsChan, varsCaptcha, varsV2, varsOcr, varsScan, varsCk>>

\* redeem_with_backoff(fid, code, variant) is called: http, bodytxt = None, ""
InitBackoff ==
    /\ IdleSign
    /\ EmptyChan
    /\ script = "v2"
    /\ pc = "backoff"
    /\ env_ok = TRUE
    /\ roster \in {r \in StoredRosters : Len(r) = 1}
    /\ FreshRun
    /\ CAPTCHA = <<>>
    /\ captcha_refreshed = FALSE
    /\ IdleBackoff
    /\ IdleV2
    /\ IdleOcr
    /\ IdleScan
    /\ IdleCk

\* one iteration of "for i in range(len(backoffs) + 1)"; attempt is i
BackoffStep ==
    /\ script = "v2" /\ pc = "backoff"
    /\ attempt < Len(backoffs) + 1
    /\ \/ \* redeem_once raises: the exception leaves redeem_with_backoff
          /\ raised' = Exception("ConnectionError", "gift_code")
          /\ pc' = "raised"
          /\ UNCHANGED <<attempt, calls, slept, bo_responses, bo_returned>>
       \/ \E a \in BackoffAnswers :
             /\ calls' = calls + 1
             /\ bo_responses' = Append(bo_responses, a)
             /\ IF a.http \in {429, 403} /\ attempt < Len(backoffs)
                  THEN \* time.sleep(backoffs[i]); continue
                       /\ slept' = Append(slept, backoffs[attempt + 1])
                       /\ attempt' = attempt + 1
                       /\ UNCHANGED <<pc, bo_returned>>
                  ELSE \* break; return http, bodytxt
                       /\ bo_returned' = <<a>>
                       /\ pc' = "returned"
                       /\ UNCHANGED <<attempt, slept>>
             /\ UNCHANGED raised
    /\ UNCHANGED <<script, env_ok, exit_status, roster, codes, added, scan_i,
                   code_i, fid_i, ok_players, furnace_ups, ok_redeems,
                   fail_redeems, redeem_lines, status, login_calls,
                   gift_requests, had_unhandled_error, error_summary, posts,
                   othersBackoff>>

NextBackoff == BackoffStep

SpecBackoff == InitBackoff /\ [][NextBackoff]_vars

(***************************************************************************)
(* scripts/daily_discord_batch_v2.py: the redeem loop and method_hint      *)
(***************************************************************************)
\* the variants of one method, in the order of DEFAULT_ATTEMPTS
OfMethod(meth) == SelectSeq(DEFAULT_ATTEMPTS, LAMBDA a : a.method = meth)

\* attempts_for_hint(h)
attempts_for_hint(h) ==
    IF h = <<"GET">> THEN OfMethod("GET") \o OfMethod("POST")
    ELSE IF h = <<"POST">> THEN OfMethod("POST") \o OfMethod("GET")
    ELSE DEFAULT_ATTEMPTS

\* a flip on every HTTP 405
flip_wanted_every_405(http, hint) == http = 405

\* if http == 405 and method_hint is None
flip_wanted(http, hint) == http = 405 /\ hint = <<>>

\* (http, upper-cased msg) that redeem_with_backoff returns and the loop parses
V2Responses ==
    { <<405, "">>, <<200, "SUCCESS">>, <<200, "SIGN ERROR.">>,
      <<200, "PARAMS ERROR.">>, <<200, "UNKNOWN">>, <<500, "">> }

othersV2 == <<form, sign, req, varsChan, varsCaptcha, slept, bo_responses, varsOcr, varsScan, varsCk>>

\* the run has scanned the roster; method_hint = None
InitV2 ==
    /\ IdleSign
    /\ EmptyChan
    /\ script = "v2"
    /\ pc = "pair"
    /\ env_ok = TRUE
    /\ roster \in {r \in StoredRosters : r # <<>>}
    /\ exit_status = <<>>
    /\ codes \in {cs \in SUBSET Codes : cs # {}}
    /\ Cardinality(codes) * Len(roster) <= MaxPairs
    /\ added = <<>>
    /\ scan_i = 1
    /\ code_i = 1
    /\ fid_i = 1
    /\ ok_players = 0
    /\ furnace_ups = <<>>
    /\ ok_redeems = 0
    /\ fail_redeems = 0
    /\ redeem_lines = <<>>
    /\ status = "UNKNOWN"
    /\ attempt = 0
    /\ calls = 0
    /\ login_calls = 0
    /\ gift_requests = <<>>
    /\ raised = <<>>
    /\ had_unhandled_error = FALSE
    /\ error_summary = <<>>
    /\ posts = <<>>
    /\ CAPTCHA = <<>>
    /\ captcha_refreshed = FALSE
    /\ IdleBackoff
    /\ IdleV2
    /\ IdleOcr
    /\ IdleScan
    /\ IdleCk

V2Code == SortedCodes(codes)[code_i]

V2Fid == SortedFids(RosterFids(roster))[fid_i]

\* "while True:" ATTEMPTS = attempts_for_hint(method_hint); status =
\* "UNKNOWN"; flipped = False; the for loop starts
V2PassStart ==
    /\ script = "v2" /\ pc = "pair"
    /\ ATTEMPTS' = attempts_for_hint(method_hint)
    /\ status' = "UNKNOWN"
    /\ flipped' = FALSE
    /\ variant_i' = 1
    /\ passes' = passes + 1
    /\ pc' = "variant"
    /\ UNCHANGED <<script, env_ok, exit_status, roster, codes, added, scan_i,
                   code_i, fid_i, ok_players, furnace_ups, ok_redeems,
                   fail_redeems, redeem_lines, attempt, calls, login_calls,
                   gift_requests, raised, had_unhandled_error, error_summary,
                   posts, method_hint, bo_returned, othersV2>>

\* "if flipped" is false: the pair's bookkeeping, "break" out of "while True"
\* and the step to the next pair
V2FinishPair(st) ==
    LET ok    == st \in OkStatuses
        nfids == Len(SortedFids(RosterFids(roster)))
        last  == fid_i = nfids /\ code_i = Len(SortedCodes(codes))
    IN  /\ status' = st
        /\ ok_redeems' = ok_redeems + (IF ok THEN 1 ELSE 0)
        /\ fail_redeems' = fail_redeems + (IF ok THEN 0 ELSE 1)
        /\ redeem_lines' = Append(redeem_lines,
                                  [fid |-> V2Fid, code |-> V2Code,
                                   ok |-> ok, status |-> st])
        /\ fid_i' = IF fid_i = nfids THEN 1 ELSE fid_i + 1
        /\ code_i' = IF fid_i = nfids THEN code_i + 1 ELSE code_i
        /\ passes' = 0
        /\ calls' = 0
        /\ pc' = IF last THEN "save" ELSE "pair"
        /\ UNCHANGED <<variant_i, method_hint, flipped>>

\* "continue" of the for loop: the next variant, or the end of the list
V2Continue(st) ==
    IF variant_i < Len(ATTEMPTS)
      THEN /\ status' = st
           /\ variant_i' = variant_i + 1
           /\ calls' = calls + 1
           /\ UNCHANGED <<pc, ok_redeems, fail_redeems, redeem_lines, fid_i,
                          code_i, passes, method_hint, flipped>>
      ELSE V2FinishPair(st)

\* one iteration of "for (method, ...) in ATTEMPTS", with what follows the
\* loop when the iteration ends it
V2Variant ==
    /\ script = "v2" /\ pc = "variant"
    /\ \/ \* redeem_once raises inside redeem_with_backoff
          /\ raised' = Exception("ConnectionError", "gift_code")
          /\ had_unhandled_error' = TRUE
          /\ error_summary' = ErrorSummary(Exception("ConnectionError", "gift_code"))
          /\ pc' = "summary"
          /\ UNCHANGED <<status, ok_redeems, fail_redeems, redeem_lines, fid_i,
                         code_i, passes, calls, variant_i, method_hint, flipped,
                         bo_returned>>
       \/ \E r \in V2Responses :
             LET http == r[1]
                 msg  == r[2]
                 method == ATTEMPTS[variant_i].method
             IN  /\ bo_returned' = <<[http |-> http, body |-> msg]>>
                 /\ UNCHANGED <<raised, had_unhandled_error, error_summary>>
                 /\ IF flip_wanted(http, method_hint) THEN
                        \* method_hint = ...; flipped = True; break; continue
                        /\ method_hint' = IF method = "POST" THEN <<"GET">>
                                                             ELSE <<"POST">>
                        /\ flipped' = TRUE
                        /\ calls' = calls + 1
                        /\ pc' = "pair"
                        /\ UNCHANGED <<status, ok_redeems, fail_redeems,
                                       redeem_lines, fid_i, code_i, passes,
                                       variant_i>>
                    ELSE IF In("SUCCESS", msg) THEN V2FinishPair("SUCCESS")
                    ELSE IF In("RECEIVED", msg) THEN V2FinishPair("ALREADY")
                    ELSE IF In("SAME TYPE EXCHANGE", msg) THEN V2FinishPair("SAME_TYPE")
                    ELSE IF In("TIME ERROR", msg) THEN V2FinishPair("EXPIRED")
                    ELSE IF In("CDK NOT FOUND", msg) THEN V2FinishPair("INVALID")
                    ELSE IF In("PARAMS", msg) \/ In("SIGN", msg) THEN
                        V2Continue(IF In("PARAMS", msg) THEN "PARAMS_ERROR"
                                                        ELSE "SIGN_ERROR")
                    ELSE LET st == IF msg # "" THEN msg ELSE HttpName(http)
                         IN  IF st \notin {"UNKNOWN", "PARSE_ERROR"}
                               THEN V2FinishPair(st)
                               ELSE V2Continue(st)
    /\ UNCHANGED <<script, env_ok, exit_status, roster, codes, added, scan_i,
                   ok_players, furnace_ups, attempt, login_calls, gift_requests,
                   posts, ATTEMPTS, othersV2>>

NextV2 ==
    \/ V2PassStart
    \/ V2Variant

SpecV2 == InitV2 /\ [][NextV2]_vars

\* every request has a timeout and every sleep is finite: a loop that is not
\* over takes its next step
SpecV2Fair == SpecV2 /\ WF_vars(NextV2)

(***************************************************************************)
(* scripts/daily_discord_batch_v3.py: ocr_read                             *)
(***************************************************************************)
MaxOcrResults == 2

\* the characters of the OCR texts
OcrLetters == {"a", "b", "A", "B", "C", "D"}

OcrDigits == {"1", "2", "3", "4", "5"}

\* str.upper() on one character
UpperChar(ch) ==
    CASE ch = "a" -> "A"
      [] ch = "b" -> "B"
      [] OTHER    -> ch

\* re.sub(r'[^A-Za-z0-9]', '', text or '').upper()
OcrClean(text) ==
    LET kept == SelectSeq(text, LAMBDA ch : ch \in OcrLetters \cup OcrDigits)
    IN  [i \in 1..Len(kept) |-> UpperChar(kept[i])]

\* texts that easyocr reads from a captcha picture; <<>> is None or ''
OcrTexts ==
    { <<>>,
      <<"a", "-", "b">>,
      <<"a", "b", "1">>,
      <<"A", " ", "b", "-", "2">>,
      <<"a", "B", "1", "2">>,
      <<"A", "B", "C", "D", "1", "2", "3", "4">>,
      <<"A", "B", "C", "D", "1", "2", "3", "4", "5">> }

\* confidences, in tenths
OcrConfs == {1, 5, 9}

\* "for _, text, c in res": the best guess after the results from position i
RECURSIVE OcrBest(_, _, _, _)
OcrBest(res, i, best, conf) ==
    IF i > Len(res) THEN best
    ELSE LET s == OcrClean(res[i].text)
         IN  IF 3 <= Len(s) /\ Len(s) <= 8 /\ res[i].c > conf
               THEN OcrBest(res, i + 1, s, res[i].c)
               ELSE OcrBest(res, i + 1, best, conf)

\* ocr_read(bimg) when readtext returns res; best, conf = "", -1.0
ocr_read(ready, res) ==
    IF ~ready THEN <<>> ELSE OcrBest(res, 1, <<>>, -10)

InitOcr ==
    /\ IdleSign
    /\ EmptyChan
    /\ script = "v3"
    /\ pc = "ocr"
    /\ env_ok = TRUE
    /\ roster = <<>>
    /\ FreshRun
    /\ CAPTCHA = <<>>
    /\ captcha_refreshed = FALSE
    /\ IdleBackoff
    /\ IdleV2
    /\ IdleScan
    /\ IdleCk
    /\ ocr_ready \in BOOLEAN
    /\ \E n \in 0..MaxOcrResults :
          ocr_res \in [1..n -> [text : OcrTexts, c : OcrConfs]]
    /\ ocr_out = <<>>

\* ocr_read returns
OcrRead ==
    /\ script = "v3" /\ pc = "ocr"
    /\ \/ ocr_out' = <<ocr_read(ocr_ready, ocr_res)>>
       \/ \* except Exception: return ""
          /\ ocr_ready
          /\ ocr_out' = << <<>> >>
    /\ pc' = "returned"
    /\ UNCHANGED <<script, env_ok, exit_status, roster, codes, added, scan_i,
                   code_i, fid_i, ok_players, furnace_ups, ok_redeems,
                   fail_redeems, redeem_lines, status, attempt, calls,
                   login_calls, gift_requests, raised, had_unhandled_error,
                   error_summary, posts, ocr_ready, ocr_res,
                   varsSign, varsChan, varsCaptcha, varsBackoff, varsV2, varsScan,
                   varsCk>>

NextOcr == OcrRead

SpecOcr == InitOcr /\ [][NextOcr]_vars

(***************************************************************************)
(* The furnace scan of scripts/daily_discord_batch.py and of the cog       *)
(***************************************************************************)
InitScan == InitBatch \/ InitCog

NextScan == NextBatch \/ NextCog

SpecScan == InitScan /\ [][NextScan]_vars

(***************************************************************************)
(* scripts/daily_discord_batch.py: the checkpoints of runs that load the   *)
(* state, read the channels, redeem and save                              *)
(***************************************************************************)
\* runs in the behaviours explored
MaxRuns == 2

\* messages posted to the codes channel in the behaviours explored
MaxCodeMsgs == 2

\* messages posted to the ids channel in the behaviours explored
MaxIdMsgs == 1

\* every message of the channel, whatever the checkpoint
messages_after_any(top, after_id) == 1..top

\* get_messages_after(channel_id, after_id): the ids of the messages newer
\* than after_id (no "after" parameter is sent for 0)
messages_after(top, after_id) == (after_id + 1)..top

\* max(last, int(m["id"])) over the messages read
MaxId(last, ids) == IF ids = {} THEN last ELSE CHOOSE i \in ids \cup {last} :
                                                  \A j \in ids \cup {last} : j <= i

\* the attachment of state message id, as Discord stored it
StateOf(id) ==
    LET i == CHOOSE k \in 1..Len(upload_log) : upload_log[k].id = id
    IN  upload_log[i].state

\* new_state = {"last_id_codes": ..., "last_id_ids": ..., "roster": ...}
new_state(r) ==
    [last_id_codes |-> last_codes[r], last_id_ids |-> last_ids[r],
     roster |-> run_roster[r]]

\* the id of the state message whose content the run started from
loaded_from(r) == IF state[r] = <<>> THEN <<>> ELSE prev_state_msg_id[r]

othersCk == <<varsSign, varsScript, varsCaptcha, varsBackoff, varsV2, varsOcr,
              varsScan>>

InitCkpt ==
    /\ IdleSign
    /\ script = "none"
    /\ pc = "idle"
    /\ env_ok = TRUE
    /\ roster = <<>>
    /\ FreshRun
    /\ EmptyChan
    /\ IdleAux

\* somebody posts a gift code
CkPostCode ==
    /\ codes_top < MaxCodeMsgs
    /\ codes_top' = codes_top + 1
    /\ UNCHANGED <<ids_top, runs_started, run_no, state, last_codes, last_ids,
                   run_roster, run_codes, latest_at_load, req_log, upload_log,
                   overlapped, varsChan, othersCk>>

\* somebody posts a FID
CkPostFid ==
    /\ ids_top < MaxIdMsgs
    /\ ids_top' = ids_top + 1
    /\ UNCHANGED <<codes_top, runs_started, run_no, state, last_codes, last_ids,
                   run_roster, run_codes, latest_at_load, req_log, upload_log,
                   overlapped, varsChan, othersCk>>

\* prev_state_msg_id, state = find_latest_state_message(STATE_CH, bot_id);
\* last_codes, last_ids, roster are taken from state
CkLoad(r) ==
    /\ st_pc[r] = "idle"
    /\ runs_started < MaxRuns
    /\ LET found == find_latest_state_message(channel)
       IN  \E got \in
                  { [id |-> <<>>, st |-> <<>>] }       \* GET failed, or no hit
                  \cup (IF found = <<>> THEN {}
                        ELSE { [id |-> found, st |-> <<StateOf(found[1])>>],
                               \* except Exception: return m["id"], {}
                               [id |-> found, st |-> <<>>] }) :
              /\ prev_state_msg_id' = [prev_state_msg_id EXCEPT ![r] = got.id]
              /\ state' = [state EXCEPT ![r] = got.st]
              /\ last_codes' = [last_codes EXCEPT ![r] =
                                  IF got.st = <<>> THEN 0 ELSE got.st[1].last_id_codes]
              /\ last_ids' = [last_ids EXCEPT ![r] =
                                  IF got.st = <<>> THEN 0 ELSE got.st[1].last_id_ids]
              /\ run_roster' = [run_roster EXCEPT ![r] =
                                  IF got.st = <<>> THEN {} ELSE got.st[1].roster]
    /\ run_codes' = [run_codes EXCEPT ![r] = {}]
    /\ latest_at_load' = [latest_at_load EXCEPT ![r] =
                            IF upload_log = <<>> THEN <<>>
                            ELSE <<upload_log[Len(upload_log)].id>>]
    /\ runs_started' = runs_started + 1
    /\ run_no' = [run_no EXCEPT ![r] = runs_started + 1]
    /\ overlapped' = overlapped \cup
                        { <<run_no[o], runs_started + 1>> :
                            o \in {q \in Runs \ {r} :
                                      st_pc[q] \in {"read", "redeem", "save"}} }
    /\ upload_msg' = [upload_msg EXCEPT ![r] = <<>>]
    /\ st_pc' = [st_pc EXCEPT ![r] = "read"]
    /\ UNCHANGED <<codes_top, ids_top, req_log, upload_log, channel, next_id,
                   uploads, floods, saved, othersCk>>

\* msgs_codes = get_messages_after(CODES_CH, last_codes) and msgs_ids =
\* get_messages_after(IDS_CH, last_ids), each [] when its GET fails; the new
\* FIDs join the roster
CkRead(r) ==
    /\ st_pc[r] = "read"
    /\ \E codes_ok \in BOOLEAN, ids_ok \in BOOLEAN :
          LET msgs_codes == IF codes_ok THEN messages_after(codes_top, last_codes[r])
                                        ELSE {}
              msgs_ids   == IF ids_ok THEN messages_after(ids_top, last_ids[r])
                                      ELSE {}
          IN  /\ run_codes' = [run_codes EXCEPT ![r] = msgs_codes]
              /\ last_codes' = [last_codes EXCEPT ![r] = MaxId(last_codes[r], msgs_codes)]
              /\ run_roster' = [run_roster EXCEPT ![r] = run_roster[r] \cup msgs_ids]
              /\ last_ids' = [last_ids EXCEPT ![r] = MaxId(last_ids[r], msgs_ids)]
    /\ st_pc' = [st_pc EXCEPT ![r] = "redeem"]
    /\ UNCHANGED <<codes_top, ids_top, runs_started, run_no, state,
                   latest_at_load, req_log, upload_log, overlapped, channel,
                   next_id, uploads, floods, prev_state_msg_id, upload_msg,
                   saved, othersCk>>

\* the process of the run ends: its variables are gone
CkExit(r) ==
    /\ st_pc' = [st_pc EXCEPT ![r] = "idle"]
    /\ run_no' = [run_no EXCEPT ![r] = 0]
    /\ state' = [state EXCEPT ![r] = <<>>]
    /\ last_codes' = [last_codes EXCEPT ![r] = 0]
    /\ last_ids' = [last_ids EXCEPT ![r] = 0]
    /\ run_roster' = [run_roster EXCEPT ![r] = {}]
    /\ run_codes' = [run_codes EXCEPT ![r] = {}]
    /\ latest_at_load' = [latest_at_load EXCEPT ![r] = <<>>]
    /\ prev_state_msg_id' = [prev_state_msg_id EXCEPT ![r] = <<>>]
    /\ upload_msg' = [upload_msg EXCEPT ![r] = <<>>]

\* the furnace scan and the redeem loop: a gift_code request for every code
\* read and every FID of the roster; an exception goes to the handler, past
\* the save
CkRedeem(r) ==
    /\ st_pc[r] = "redeem"
    /\ LET sent == { [run |-> run_no[r], code |-> c, fid |-> f] :
                        c \in run_codes[r], f \in run_roster[r] }
       IN  \/ /\ req_log' = req_log \cup sent
              /\ st_pc' = [st_pc EXCEPT ![r] = "save"]
              /\ UNCHANGED <<run_no, state, last_codes, last_ids, run_roster,
                             run_codes, latest_at_load, prev_state_msg_id,
                             upload_msg>>
           \/ \* an exception after the last request
              /\ req_log' = req_log \cup sent
              /\ CkExit(r)
           \/ \* an exception before the first request
              /\ req_log' = req_log
              /\ CkExit(r)
    /\ UNCHANGED <<codes_top, ids_top, runs_started, upload_log, overlapped,
                   channel, next_id, uploads, floods, saved, othersCk>>

\* msg = post_message_with_file(STATE_CH, ..., "wos_state.json", state_bytes)
CkUpload(r) ==
    /\ st_pc[r] = "save"
    /\ \/ \* r.ok: the message is created and returned with its id
          /\ uploads < MaxUploads
          /\ channel' = Append(channel, Message(next_id, "bot", "wos_state.json", 1))
          /\ upload_log' = Append(upload_log, [id |-> next_id, run |-> run_no[r],
                                               base |-> loaded_from(r),
                                               state |-> new_state(r)])
          /\ next_id' = next_id + 1
          /\ uploads' = uploads + 1
          /\ upload_msg' = [upload_msg EXCEPT ![r] = <<next_id>>]
          /\ saved' = TRUE
       \/ \* not r.ok, or an exception before Discord stored the file: {}
          /\ upload_msg' = [upload_msg EXCEPT ![r] = <<>>]
          /\ UNCHANGED <<channel, upload_log, next_id, uploads, saved>>
       \/ \* the answer is lost after Discord stored the file: {}
          /\ uploads < MaxUploads
          /\ channel' = Append(channel, Message(next_id, "bot", "wos_state.json", 1))
          /\ upload_log' = Append(upload_log, [id |-> next_id, run |-> run_no[r],
                                               base |-> loaded_from(r),
                                               state |-> new_state(r)])
          /\ next_id' = next_id + 1
          /\ uploads' = uploads + 1
          /\ upload_msg' = [upload_msg EXCEPT ![r] = <<>>]
          /\ UNCHANGED saved
    /\ st_pc' = [st_pc EXCEPT ![r] = "uploaded"]
    /\ UNCHANGED <<codes_top, ids_top, runs_started, run_no, state, last_codes,
                   last_ids, run_roster, run_codes, latest_at_load, req_log,
                   overlapped, floods, prev_state_msg_id, othersCk>>

\* if msg and "id" in msg and prev_state_msg_id:
\*     delete_message(STATE_CH, prev_state_msg_id)
CkDelete(r) ==
    /\ st_pc[r] = "uploaded"
    /\ IF delete_wanted(upload_msg[r], prev_state_msg_id[r])
         THEN \/ channel' = Without(channel, prev_state_msg_id[r][1])
              \/ \* the DELETE is refused or raises
                 UNCHANGED channel
         ELSE UNCHANGED channel
    /\ CkExit(r)
    /\ UNCHANGED <<codes_top, ids_top, runs_started, req_log, upload_log,
                   overlapped, next_id, uploads, floods, saved, othersCk>>

NextCkpt ==
    \/ CkPostCode
    \/ CkPostFid
    \/ ChannelFlood
    \/ \E r \in Runs : CkLoad(r)
    \/ \E r \in Runs : CkRead(r)
    \/ \E r \in Runs : CkRedeem(r)
    \/ \E r \in Runs : CkUpload(r)
    \/ \E r \in Runs : CkDelete(r)

SpecCkpt == InitCkpt /\ [][NextCkpt]_vars

(***************************************************************************)
(* Claims about signing                                                    *)
(***************************************************************************)
Range(f) == {f[i] : i \in 1..Len(f)}

\* the pairs of S in ascending key order
Ascending(S) ==
    CHOOSE q \in [1..Cardinality(S) -> S] :
        /\ \A i, j \in 1..Cardinality(S) : i < j => Rank(q[i][1]) < Rank(q[j][1])

\* the digest of "k1=v1&k2=v2..." in ascending key order, followed by the secret
SortedDigest(S) == md5(JoinAmp(Ascending(S)) \o <<WOS_SECRET>>)

WithoutSign(payload) == SelectSeq(payload, LAMBDA kv : kv[1] # "sign")

SignField(payload) == SelectSeq(payload, LAMBDA kv : kv[1] = "sign")[1][2]

\* C1: sign_sorted(form, secret) (and md5sign of daily.py) is the MD5 digest
\* of the form's key=value pairs in ascending key order joined by "&",
\* followed by the secret; forms holding the same pairs get the same sign
\* whatever the insertion order.
C1_SignIsSortedDigest ==
    (sign # <<>> /\ req = <<>>) =>
        /\ sign = SortedDigest(Range(form))
        /\ \A g \in InputForms :
              Range(g) = Range(form) =>
                 /\ sign_sorted(g, WOS_SECRET) = sign
                 /\ md5sign(g)[1][2] = sign

\* a form of three or more keys inserted out of key order has been signed
C1_Witness ==
    /\ sign # <<>>
    /\ req = <<>>
    /\ Len(form) >= 3
    /\ Rank(form[1][1]) > Rank(form[2][1])

\* C2 as stated: every request sent to the vendor API carries a sign equal to
\* the MD5 digest of its other parameters in sorted key order followed by
\* the secret.
C2_EveryRequestSortedSign ==
    req # <<>> =>
        SignField(req.payload) = SortedDigest(Range(WithoutSign(req.payload)))

\* C2 amended: the sign is the sorted-order digest in every /api/player
\* request and in the /api/gift_code requests of the cog and of
\* run_wos_redeem.py. The gift_code request of
\* daily_discord_batch_solver_free.py is signed over the fixed order fid,
\* cdk, captcha_code, time, which is not the sorted order; in
\* daily_discord_batch_v2.py the sign is the sorted-order digest exactly for
\* the variants with order "sorted", concat "plain" and no upper-casing.
C2_SortedSignWhereUsed ==
    req # <<>> =>
        LET sg       == SignField(req.payload)
            others   == WithoutSign(req.payload)
            expected == SortedDigest(Range(others))
        IN  /\ req.url = "/api/player" => sg = expected
            /\ req.script \in {"cog", "run_wos_redeem"} => sg = expected
            /\ (req.script = "solver_free" /\ req.url = "/api/gift_code") =>
                  /\ sg = md5(JoinAmp(others) \o <<WOS_SECRET>>)
                  /\ sg # expected
            /\ (req.script = "v2" /\ req.url = "/api/gift_code") =>
                  (sg = expected <=>
                     /\ req.variant.order = "sorted"
                     /\ req.variant.concat = "plain"
                     /\ ~req.variant.uppercase)

\* a gift_code request of a "sorted" variant of v2 has been built
C2_Witness ==
    /\ req # <<>>
    /\ req.url = "/api/gift_code"
    /\ req.script = "v2"
    /\ req.variant.order = "sorted"

(***************************************************************************)
(* Claims about scripts/daily_discord_batch.py                             *)
(***************************************************************************)
Summaries == SelectSeq(posts, LAMBDA m : m.kind = "summary")

\* the (code, FID) pairs of the redeem loop, in its order
RECURSIVE PairsOf(_, _)
PairsOf(cs, fs) ==
    IF cs = <<>> THEN <<>>
    ELSE [i \in 1..Len(fs) |-> [fid |-> fs[i], code |-> Head(cs)]] \o PairsOf(Tail(cs), fs)

LinePairs(lines) == [i \in 1..Len(lines) |-> [fid |-> lines[i].fid, code |-> lines[i].code]]

IsPrefix(a, b) == Len(a) <= Len(b) /\ a = SubSeq(b, 1, Len(a))

C10_AtMostFourAttempts ==
    /\ [](script = "batch" =>
            /\ calls <= 4
            /\ attempt <= 4
            /\ LET all == PairsOf(SortedCodes(codes), SortedFids(RosterFids(roster)))
                   done == IF pc \in {"pair", "attempt"}
                             THEN (code_i - 1) * Len(SortedFids(RosterFids(roster))) + fid_i - 1
                             ELSE Len(all)
               IN  /\ IsPrefix(LinePairs(redeem_lines), all)
                   /\ raised = <<>> /\ pc \in {"pair", "attempt", "save", "summary", "done"}
                         => Len(redeem_lines) = done)
    /\ (pc = "attempt" ~> pc # "attempt")

\* a pair took all four attempts and its line is recorded
C10_Witness ==
    /\ script = "batch"
    /\ calls = 4
    /\ pc = "save"
    /\ Len(redeem_lines) = 2
    /\ redeem_lines[2].status = "CAPTCHA_RETRY"

(***************************************************************************)
(* Claims about cogs/daily_batch.py                                        *)
(***************************************************************************)
\* C4 as stated: every firing of daily_loop that has ended has posted exactly
\* one message to the summary channel, the notice or the Daily Batch
\* Summary, also when the cookie fetch or a vendor request raised.
C4_OneMessagePerFiring ==
    (script = "cog" /\ pc = "ended") =>
        /\ Len(posts) = 1
        /\ posts[1].kind \in {"notice", "summary"}

\* C8: in a firing that did not return early and in which nothing raised,
\* the gift_code requests sent are exactly the pairs (new code, roster FID),
\* each once, over the whole roster table (FIDs added in this firing and FIDs
\* whose lookup failed included); each pair has exactly one redeem line and
\* ok_redeems + fail_redeems = (number of codes) x (number of roster FIDs).
C8_OneRequestPerPair ==
    (script = "cog" /\ pc = "ended" /\ raised = <<>> /\ posts[1].kind = "summary") =>
        LET all == PairsOf(SortedCodes(codes), SortedFids(RosterFids(roster)))
        IN  /\ gift_requests = all
            /\ \A i, j \in 1..Len(all) : all[i] = all[j] => i = j
            /\ LinePairs(redeem_lines) = all
            /\ ok_redeems + fail_redeems = Cardinality(codes) * Len(roster)
            /\ \A i \in 1..Len(added) : added[i] \in RosterFids(roster)

\* a firing with two codes and two roster FIDs, one of them added in this
\* firing and one whose player lookup failed, has sent its summary
C8_Witness ==
    /\ script = "cog"
    /\ pc = "ended"
    /\ raised = <<>>
    /\ Cardinality(codes) = 2
    /\ Len(roster) = 2
    /\ Len(added) = 1
    /\ ok_players = 1
    /\ Len(gift_requests) = 4
    /\ Len(posts) = 1
    /\ posts[1].kind = "summary"

(***************************************************************************)
(* Claims about the state attachment                                       *)
(***************************************************************************)
BotStateMessages(ch) ==
    {i \in 1..Len(ch) : ch[i].author = "bot" /\ ch[i].file = "wos_state.json"}

\* C5: a message leaves the state channel only in the delete step of a run
\* whose upload returned a message id, and it is that run's previous state
\* message (so a failed upload leaves the previous state message in place);
\* and once an upload has returned an id the channel holds at least one
\* bot-authored wos_state.json message in every later state.
C5_DeleteOnlyAfterUpload ==
    /\ [](saved => BotStateMessages(channel) # {})
    /\ [][\A i \in 1..Len(channel) :
            (\A j \in 1..Len(channel') : channel'[j] # channel[i]) =>
               \E r \in Runs :
                  /\ st_pc[r] = "uploaded"
                  /\ st_pc'[r] = "idle"
                  /\ upload_msg[r] # <<>>
                  /\ prev_state_msg_id[r] = <<channel[i].id>>]_vars

\* after an earlier save whose previous message was deleted, a run found a
\* previous state message and its upload failed: the message is still there
C5_Witness ==
    /\ saved
    /\ uploads >= 2
    /\ Cardinality(BotStateMessages(channel)) = 1
    /\ \E r \in Runs :
          /\ st_pc[r] = "uploaded"
          /\ upload_msg[r] = <<>>
          /\ prev_state_msg_id[r] # <<>>
          /\ \E i \in BotStateMessages(channel) : channel[i].id = prev_state_msg_id[r][1]

(***************************************************************************)
(* Claims about scripts/run_wos_redeem.py                                  *)
(***************************************************************************)
\* C6 as stated: every run of run_wos_redeem.py ends with exit status 2 if
\* ok_redeems = 0 and ends normally (status 0) otherwise.
C6_ExitTwoIffNoOkRedeem ==
    (script = "run_wos_redeem" /\ pc = "done") =>
        /\ exit_status \in {<<0>>, <<2>>}
        /\ exit_status = <<2>> <=> ok_redeems = 0

\* C6 amended: a run that passes the env check and in which no call raises
\* sends a gift_code request exactly for the FIDs whose player lookup
\* succeeded, and ends with status 2 if ok_redeems = 0 (no lookup succeeded,
\* or every redeem was counted failed) and with status 0 otherwise. A run
\* with a missing env var ends with status 1 before any request, and a run
\* in which the cookie fetch or a request raises ends with status 1,
\* whatever the counters are.
C6_ExitStatus ==
    (script = "run_wos_redeem" /\ pc = "done") =>
        /\ ~env_ok => exit_status = <<1>> /\ gift_requests = <<>> /\ ok_players = 0
        /\ (env_ok /\ raised # <<>>) => exit_status = <<1>>
        /\ (env_ok /\ raised = <<>>) =>
              /\ ok_redeems + fail_redeems = ok_players
              /\ Len(gift_requests) = ok_players
              /\ exit_status \in {<<0>>, <<2>>}
              /\ exit_status = <<2>> <=> ok_redeems = 0
              /\ exit_status = <<2>> <=>
                    (ok_players = 0 \/ (fail_redeems > 0 /\ ok_redeems = 0))

\* a run over three FIDS in which no lookup succeeded has ended
C6_Witness ==
    /\ script = "run_wos_redeem"
    /\ pc = "done"
    /\ env_ok
    /\ raised = <<>>
    /\ Len(roster) = 3
    /\ ok_players = 0
    /\ exit_status = <<2>>

(***************************************************************************)
(* Claims about Redeemer.redeem_one of daily_discord_batch_v3.py           *)
(***************************************************************************)
\* the statuses the docstring of redeem_one lists
DocStatuses ==
    {"SUCCESS", "ALREADY", "SAME_TYPE", "INVALID", "EXPIRED", "CAPTCHA_RETRY",
     "NO_LOGIN", "NO_RESPONSE", "ERROR:Error", "ERROR:Exception", "ERROR:DOM_PARSE"}

\* C7 as stated: whatever the OCR results and page messages of the 4 captcha
\* attempts are, the status redeem_one returns is one of those its docstring
\* lists.
C7_ReturnsDocumentedStatus ==
    (script = "v3" /\ pc = "return") => status \in DocStatuses

(***************************************************************************)
(* Claims about the exit status                                            *)
(***************************************************************************)
\* C9 as stated: every run of daily_discord_batch.py, daily_discord_batch_v2.py
\* and daily_discord_batch_solver_free.py terminates with exit status 0,
\* also when an env var is missing, when a Discord request fails or raises,
\* when a vendor request fails and when an exception is raised in the run.
C9_AlwaysExitZero ==
    (script \in ExitScripts /\ pc = "done") => exit_status = <<0>>

(***************************************************************************)
(* Claims about the relogin of daily_discord_batch.py                      *)
(***************************************************************************)
\* C11 as stated: for one (code, FID) pair login_fid is called at most once
\* after the initial login, whatever the responses of the later attempts are.
C11_ReloginAtMostOnce ==
    script = "batch" => login_calls <= 2

C13_BackoffAtMostFive ==
    (script = "v2" /\ pc \in {"backoff", "returned"}) =>
        LET n == Len(bo_responses)
        IN  /\ n <= 5
            /\ calls = n
            /\ Len(slept) <= 4
            /\ slept = SubSeq(<<2, 4, 8, 16>>, 1, Len(slept))
            /\ \A i \in 1..Len(slept) : bo_responses[i].http \in {429, 403}
            /\ pc = "backoff" => Len(slept) = n /\ bo_returned = <<>>
            /\ pc = "returned" =>
                  /\ n >= 1
                  /\ Len(slept) = n - 1
                  /\ bo_returned = <<bo_responses[n]>>
                  /\ bo_responses[n].http \in {429, 403} => n = 5

\* the 5th answer is again a 429 and is returned after sleeps of 2, 4, 8, 16
C13_Witness ==
    /\ script = "v2"
    /\ pc = "returned"
    /\ Len(bo_responses) = 5
    /\ slept = <<2, 4, 8, 16>>
    /\ bo_returned # <<>>
    /\ bo_returned[1].http = 429

(***************************************************************************)
(* Claims about method_hint of daily_discord_batch_v2.py                   *)
(***************************************************************************)
\* a pass of "while True" ends without the pair being finished
C14_Restart == pc = "variant" /\ pc' = "pair" /\ passes' = passes

\* C14: method_hint never changes once it is set; the variant list of a pair
\* is restarted only by an HTTP 405 answer received while method_hint is None,
\* which sets it to the method opposite to that of the variant; the restarted
\* pass puts the variants of that method first; "while True" begins at most
\* two passes for a pair, a pass tries at most 15 variants, and the redeem
\* phase ends for every sequence of answers.
C14_HintSetOnce ==
    /\ [][script = "v2" /\ method_hint # <<>> => method_hint' = method_hint]_vars
    /\ [][(script = "v2" /\ C14_Restart) =>
            /\ method_hint = <<>>
            /\ bo_returned'[1].http = 405
            /\ method_hint' = <<IF ATTEMPTS[variant_i].method = "POST"
                                  THEN "GET" ELSE "POST">>]_vars
    /\ [][(script = "v2" /\ method_hint' # method_hint) => C14_Restart]_vars
    /\ [](script = "v2" =>
            /\ passes <= 2
            /\ variant_i <= 15
            /\ calls <= 15 * passes
            /\ pc = "variant" =>
                  /\ Len(ATTEMPTS) = 15
                  /\ Range(ATTEMPTS) = Range(DEFAULT_ATTEMPTS)
                  /\ variant_i \in 1..15
                  /\ method_hint # <<>> =>
                        \A i, j \in 1..15 :
                            (ATTEMPTS[i].method = method_hint[1]
                             /\ ATTEMPTS[j].method # method_hint[1]) => i < j
                  /\ passes = 2 => method_hint # <<>>)
    /\ ((script = "v2" /\ pc = "pair") ~> pc \in {"save", "summary"})

\* a pair whose first pass ended in a 405 and whose second pass met another
\* 405: the second one gave the pair its line
C14_Witness ==
    /\ script = "v2"
    /\ pc = "save"
    /\ method_hint = <<"GET">>
    /\ Len(redeem_lines) = 2
    /\ redeem_lines[1].status = "HTTP_405"
    /\ redeem_lines[2].status = "HTTP_405"

(***************************************************************************)
(* Claims about ocr_read of daily_discord_batch_v3.py                      *)
(***************************************************************************)
\* C15 as stated: ocr_read returns the empty string or a string of 4 to 8
\* characters, all of them in A-Z or 0-9.
C15_OcrReadLength ==
    (script = "v3" /\ pc = "returned" /\ ocr_out # <<>>) =>
        \/ ocr_out[1] = <<>>
        \/ /\ Len(ocr_out[1]) \in 4..8
           /\ \A i \in 1..Len(ocr_out[1]) :
                 ocr_out[1][i] \in {"A", "B", "C", "D"} \cup OcrDigits

(***************************************************************************)
(* Claims about the furnace scan                                           *)
(***************************************************************************)
\* C16: a step of the furnace scan that finishes a lookup appends a level-up
\* for the FID exactly when the lookup succeeded, the stored level is not
\* null and the fetched level is greater than the stored one; after a
\* successful lookup the stored level of the FID is the fetched level and no
\* other record changed; a failed lookup leaves the roster unchanged.
C16_LevelUpExactly ==
    [][(script \in {"batch", "cog"} /\ pc = "scan" /\ scan_i' = scan_i + 1) =>
          LET rec == roster[scan_i]
              js  == player_js'[1]
              up  == /\ js.ok
                     /\ rec.stove # <<>>
                     /\ js.stove # <<>>
                     /\ js.stove[1] > rec.stove[1]
          IN  /\ up => furnace_ups' = Append(furnace_ups,
                                             [fid |-> rec.fid, prev |-> rec.stove,
                                              stove |-> js.stove])
              /\ ~up => furnace_ups' = furnace_ups
              /\ js.ok => /\ roster' = [roster EXCEPT ![scan_i].stove = js.stove]
                          /\ ok_players' = ok_players + 1
              /\ ~js.ok => roster' = roster /\ ok_players' = ok_players]_vars

\* the cog has scanned two FIDs: the first lookup failed, the second one
\* reported a level-up from 10 to 11
C16_Witness ==
    /\ script = "cog"
    /\ pc = "scan"
    /\ scan_i = 3
    /\ ok_players = 1
    /\ roster[1].stove = <<>>
    /\ roster[2].stove = <<11>>
    /\ player_js = <<PlayerSuccess(<<11>>)>>
    /\ Len(furnace_ups) = 1
    /\ furnace_ups[1].prev = <<10>>

(***************************************************************************)
(* Claims about the checkpoints of daily_discord_batch.py                  *)
(***************************************************************************)
\* C17 as stated: a run that loads after some upload of wos_state.json
\* succeeded starts from the content of the newest such upload.
C17_LoadsLatestSaved ==
    \A r \in Runs :
        (st_pc[r] # "idle" /\ latest_at_load[r] # <<>>) =>
            state[r] = <<StateOf(latest_at_load[r][1])>>

\* the gift_code requests of run n
RequestsOf(n) == {x \in req_log : x.run = n}

\* two requests for the same (code message, FID) pair
SamePair(x, y) == x.code = y.code /\ x.fid = y.fid

\* the uploads of run n
UploadsOf(n) == {k \in 1..Len(upload_log) : upload_log[k].run = n}

\* C18 as stated: once two runs that both loaded before either saved have
\* ended, the newest bot-authored wos_state.json message carries checkpoints
\* at least as high as those either of them saved, and no (code, FID) pair
\* has requests from both.
C18_NoRollbackNoDuplicate ==
    \A p \in overlapped :
        (\A r \in Runs : run_no[r] \notin {p[1], p[2]}) =>
            /\ \A k \in UploadsOf(p[1]) \cup UploadsOf(p[2]) :
                  /\ BotStateMessages(channel) # {}
                  /\ LET i == CHOOSE j \in BotStateMessages(channel) :
                                 \A h \in BotStateMessages(channel) : h <= j
                         newest == StateOf(channel[i].id)
                     IN  /\ newest.last_id_codes >= upload_log[k].state.last_id_codes
                         /\ newest.last_id_ids >= upload_log[k].state.last_id_ids
            /\ \A x \in RequestsOf(p[1]), y \in RequestsOf(p[2]) : ~SamePair(x, y)

\* the checkpoints and the roster a run started from: {} gives 0, 0, {}
LoadedState(st) ==
    IF st = <<>> THEN [last_id_codes |-> 0, last_id_ids |-> 0, roster |-> {}]
    ELSE st[1]

\* C18, amended: every run asks only for code messages newer than the
\* last_id_codes it loaded, and keeps checkpoints and roster at least at what
\* it loaded; a saved state covers every request of its run; so when a run
\* started from the state file another run saved, the two share no
\* (code message, FID) pair and the later file carries checkpoints and a
\* roster at least those of the earlier one.
C18_CheckpointPerRun ==
    /\ \A r \in Runs :
          st_pc[r] # "idle" =>
              LET ld == LoadedState(state[r])
              IN  /\ last_codes[r] >= ld.last_id_codes
                  /\ last_ids[r] >= ld.last_id_ids
                  /\ ld.roster \subseteq run_roster[r]
                  /\ \A x \in RequestsOf(run_no[r]) :
                        /\ x.code > ld.last_id_codes
                        /\ x.code <= last_codes[r]
                        /\ x.fid \in run_roster[r]
                  /\ loaded_from(r) # <<>> =>
                        \A x \in RequestsOf(run_no[r]),
                           y \in RequestsOf(upload_log[CHOOSE k \in 1..Len(upload_log) :
                                               upload_log[k].id = loaded_from(r)[1]].run) :
                              ~SamePair(x, y)
    /\ \A k \in 1..Len(upload_log) :
          LET v == upload_log[k]
          IN  /\ \A x \in RequestsOf(v.run) :
                    x.code <= v.state.last_id_codes /\ x.fid \in v.state.roster
              /\ v.base # <<>> =>
                    LET u == upload_log[CHOOSE j \in 1..Len(upload_log) :
                                           upload_log[j].id = v.base[1]]
                    IN  /\ v.state.last_id_codes >= u.state.last_id_codes
                        /\ v.state.last_id_ids >= u.state.last_id_ids
                        /\ u.state.roster \subseteq v.state.roster
                        /\ \A x \in RequestsOf(v.run), y \in RequestsOf(u.run) :
                              ~SamePair(x, y)

\* a run started from the state file an earlier run saved; both sent
\* requests and both saved
C18_Witness ==
    /\ Len(upload_log) = 2
    /\ upload_log[2].base = <<upload_log[1].id>>
    /\ upload_log[2].run # upload_log[1].run
    /\ RequestsOf(upload_log[1].run) # {}
    /\ RequestsOf(upload_log[2].run) # {}
    /\ upload_log[2].state.last_id_codes > upload_log[1].state.last_id_codes

====
